---- MODULE Spec2Model ----
(***************************************************************************)
(* Model of RenderTypes::Matrix<real> (src/src/renderer/RenderTypes.h) on  *)
(* the POSIX (Linux) build: one matrix object, the heap block or shared    *)
(* mapping its `data' pointer refers to, and the OS namespace of named     *)
(* shared-memory segments.  The functions of values of RenderTypes, the    *)
(* Mutex and the buffers of an OgreBaseRenderable follow, each with the    *)
(* specification that explores it.                                         *)
(*                                                                         *)
(* Encoding of a memory block: `buflen' is the number of elements of the   *)
(* block; `buf' lists its elements from index 0 with trailing zero         *)
(* elements left out, so element i of the block is buf[i+1] when           *)
(* i < Len(buf) and 0 when Len(buf) <= i < buflen.  An access at an index  *)
(* >= buflen is outside the block (undefined behaviour): such a read       *)
(* yields a value chosen nondeterministically, such a write is not         *)
(* retained, and `ub' records that it happened.                            *)
(***************************************************************************)
EXTENDS Integers, Sequences, FiniteSets, TLC

VARIABLES
    data,         \* what Matrix::data points to: "null", "heap" or "map"
    buf,          \* elements of the block `data' points to (see encoding above)
    buflen,       \* number of elements of that block
    _n_actual,    \* Matrix::_n_actual
    _n,           \* Matrix::_n
    _m,           \* Matrix::_m
    _isShared,    \* Matrix::_isShared
    _sharedname,  \* Matrix::_sharedname, a sequence of characters (<<>> is "")
    segs,         \* OS namespace: segment name -> [owner, sized]
    maps,         \* live mappings held by this matrix (saturates at 2)
    creator,      \* the current mapping's segment was created here with O_EXCL
    exc,          \* exception thrown by the last call, or "none"
    ub,           \* some call accessed memory outside its block
    crashed,      \* the process was killed (SIGBUS / SIGSEGV)
    allocs,       \* number of new T[] executed by the last call
    opens,        \* number of shm_open calls made by the last call
    fault,        \* the system call that failed during the last call, or "none"
    run,          \* reallocations in the run of single-value appends since
                  \* construction with 0 rows, NoRun once another call was made
    call,         \* the last call and its arguments
    ret,          \* what the last call returned, or the fields of the
                  \* IndexException it threw; << >> for a call returning void
    _mutex,       \* Mutex::_mutex of the one Mutex, << >> when there is none
    thr,          \* thread -> its position and the fields of its Locker
    obj           \* the fields of the OgreBaseRenderable and its buffers,
                  \* << >> when there is none

vars == <<data, buf, buflen, _n_actual, _n, _m, _isShared, _sharedname, segs,
          maps, creator, exc, ub, crashed, allocs, opens, fault,
          run, call, ret, _mutex, thr, obj>>

(***************************************************************************)
(* Bounds of the model                                                     *)
(***************************************************************************)
MaxRows == 3        \* calls that would leave more rows are not explored
MaxM == 2           \* column counts explored: 1..MaxM
MaxVal == 1         \* element values explored: 0..MaxVal
MaxInitRows == 1    \* rows given to the constructor: 0..MaxInitRows
MaxLines == 1       \* lines of a text file
MaxSegs == 2        \* segments in the namespace
MaxForeign == 0     \* other creators use counters 0..MaxForeign
NumAppends == 1001  \* rows appended in the growth specification

(***************************************************************************)
(* Program constants                                                       *)
(***************************************************************************)
SizeofT == 8            \* sizeof(real), real is double
MinAlloc == 1000        \* minimum reallocation in rows
RetryLimit == 100000    \* bound of the name retry loop

NoRun == 0 - 1

Val0 == 0..MaxVal
Max(a, b) == IF a >= b THEN a ELSE b
Min(a, b) == IF a <= b THEN a ELSE b

\* sval is u32.  Every row, column and byte count of this model stays below
\* 2^31, where u32 arithmetic is the arithmetic of the integers (TLC stops
\* with an error on a larger number), so no sval operation here wraps.

(***************************************************************************)
(* Memory blocks                                                           *)
(***************************************************************************)
\* drop trailing zero elements (canonical form of the encoding)
RECURSIVE Norm(_)
Norm(s) ==
    IF Len(s) = 0 \/ s[Len(s)] # 0 THEN s
    ELSE Norm(SubSeq(s, 1, Len(s) - 1))

\* k zero elements
Zeros(k) == [i \in 1..k |-> 0]

\* element i (from 0) of a block with explicit prefix b
Elem(b, i) == IF i < Len(b) THEN b[i + 1] ELSE 0

\* values an out-of-block read of k elements may produce
Garbage(k) == [1..k -> Val0]

\* element i of the block of s; gs supplies what lies past the block
Cell(s, i, gs) ==
    IF i < s.buflen THEN Elem(s.buf, i)
    ELSE IF i - s.buflen < Len(gs) THEN gs[i - s.buflen + 1] ELSE 0

\* the first cnt elements of the block of s, as memcpy reads them
ReadCells(s, cnt, gs) ==
    IF cnt <= Len(s.buf) THEN SubSeq(s.buf, 1, cnt)
    ELSE IF cnt <= s.buflen THEN s.buf
    ELSE [i \in 1..cnt |-> Cell(s, i - 1, gs)]

\* number of elements of the first `cells' that lie outside the block of s
Slack(s, cells) ==
    IF s.data # "null" /\ cells > s.buflen THEN cells - s.buflen ELSE 0

\* data[at + j] = src[j + 1] for j < Len(src); a store through a null pointer
\* kills the process, a store past the block is undefined behaviour
WriteCells(s, at, src) ==
    IF Len(src) = 0 THEN s
    ELSE IF s.data = "null" THEN [s EXCEPT !.crashed = TRUE]
    ELSE LET kept == SubSeq(src, 1, Min(Len(src), Max(0, s.buflen - at)))
             nb == IF at >= Len(s.buf)
                   THEN s.buf \o Zeros(at - Len(s.buf)) \o kept
                   ELSE SubSeq(s.buf, 1, at) \o kept
                        \o SubSeq(s.buf, at + Len(kept) + 1, Len(s.buf))
         IN [s EXCEPT !.buf = IF Len(kept) = 0 THEN @ ELSE Norm(nb),
                      !.ub = @ \/ (at + Len(src) > s.buflen)]

Throw(s, e) == [s EXCEPT !.exc = e]

\* saturating counter of live mappings
Inc(x) == Min(2, x + 1)
Dec(x) == Max(0, x - 1)

(***************************************************************************)
(* Matrix: sizes, checks and resize().  Every operation is an operator on  *)
(* the record s of the object's fields and the OS state; gs is what reads  *)
(* outside the block yield.                                                *)
(***************************************************************************)
\* Matrix::memSize(): sval(sizeof(T)*_n*_m), in bytes
memSize(s) == (SizeofT * s.n * s.m)

\* number of whole elements in `bytes' bytes
Elems(bytes) == bytes \div SizeofT

\* a checkNotShared() that lets every call through
checkNotSharedNever(s) == FALSE

\* Matrix::checkNotShared(): TRUE when it throws MemException
checkNotShared(s) == s.isShared

\* a checkIndex() that lets the bound itself through
checkIndexAbove(val, maxval) == val > maxval

\* Matrix::checkIndex(): TRUE when it throws IndexException
checkIndex(val, maxval) == val >= maxval

\* a resize() that never finds the allocated rows sufficient
enoughRowsNever(s, reserveNum) == FALSE

\* resize(): the test that the allocated rows already meet the demand
enoughRows(s, reserveNum) ==
    (s.n + reserveNum) <= s.n_actual /\ ~s.isShared

\* a resize() that rounds the 50% reserve up instead of down
newCapacityCeil(s, reserveNum) ==
    IF s.data = "null" THEN s.n
    ELSE Max(MinAlloc, ((s.n * 3 + 1) \div 2 + reserveNum))

\* resize(): the number of rows to allocate
newCapacity(s, reserveNum) ==
    IF s.data = "null" THEN s.n
    ELSE Max(MinAlloc, ((s.n * 3) \div 2 + reserveNum))

\* a resize() that copies nothing from the old block
copyCountNone(s) == 0

\* resize(): the number of elements copied from the old block
copyCount(s) == s.n_actual * s.m

\* Matrix::resize(reserveNum)
resize(s, reserveNum, gs) ==
    IF enoughRows(s, reserveNum) THEN s
    ELSE LET new_n_actual == newCapacity(s, reserveNum)
         IN IF new_n_actual < s.n_actual /\ ~s.isShared THEN s
            ELSE LET newlen == (new_n_actual * s.m)
                     cnt == copyCount(s)
                     copied == IF s.data = "null" THEN <<>>
                               ELSE ReadCells(s, Min(cnt, newlen), gs)
                 IN [s EXCEPT
                        !.data = "heap",
                        !.buf = Norm(copied),
                        !.buflen = newlen,
                        !.n_actual = new_n_actual,
                        !.allocs = @ + 1,
                        !.ub = @ \/ (s.data # "null"
                                     /\ (cnt > s.buflen \/ cnt > newlen))]

\* Matrix::setN(_newn)
setN(s, newn, gs) ==
    IF checkNotShared(s) THEN Throw(s, "MemException")
    ELSE resize([s EXCEPT !.n = newn], 0, gs)

\* Matrix::setM(_newm)
setM(s, newm) ==
    IF checkNotShared(s) THEN Throw(s, "MemException")
    ELSE LET m1 == Max(1, newm)
         IN IF m1 > (s.m * s.n) THEN Throw(s, "MemException")
            ELSE [s EXCEPT !.n = (s.n * s.m) \div m1, !.m = m1]

\* Matrix::addRows(num)
addRows(s, num, gs) == setN(s, (s.n + num), gs)

\* Matrix::reserveRows(num)
reserveRows(s, num, gs) ==
    IF checkNotShared(s) THEN Throw(s, "MemException")
    ELSE resize(s, num, gs)

\* append(const Matrix<T>& t): the memcpy of t's rows after the oldn rows,
\* once addRows() has returned s1
copyRows(s1, oldn, cells) ==
    IF s1.exc # "none" THEN s1 ELSE WriteCells(s1, s1.m * oldn, cells)

\* Matrix::append(const Matrix<T>& t); t is [n, m, cells]
appendMatrix(s, t, gs) ==
    IF t.m # s.m THEN Throw(s, "MemException")
    ELSE copyRows(addRows(s, t.n, gs), s.n, t.cells)

\* append(const T& t, sval m): at(_n-1,m)=t, once addRows() has returned s1
storeLast(s1, t, col) ==
    IF s1.exc # "none" THEN s1
    ELSE WriteCells(s1, col + s1.m * (s1.n - 1), <<t>>)

\* Matrix::append(const T& t, sval m)
append(s, t, col, gs) == storeLast(addRows(s, 1, gs), t, col)

\* removeRow(): the memmove of the rows after row `row' one row up
moveRowsUp(s, row, gs) ==
    [WriteCells(s, row * s.m,
                [j \in 1..((s.n - row - 1) * s.m) |->
                   Cell(s, (row + 1) * s.m + j - 1, gs)])
       EXCEPT !.ub = @ \/ (s.n * s.m > s.buflen)]

\* removeRow(): setN(_n-1), once the memmove has left s1
dropLast(s1, gs) == IF s1.crashed THEN s1 ELSE setN(s1, s1.n - 1, gs)

\* Matrix::removeRow(n)
removeRow(s, row, gs) ==
    IF checkNotShared(s) THEN Throw(s, "MemException")
    ELSE IF checkIndex(row, s.n) THEN Throw(s, "IndexException")
    ELSE dropLast(IF row < s.n - 1 THEN moveRowsUp(s, row, gs) ELSE s, gs)

\* readTextFileMatrix(): mat->at(pos,x)=entry[x] for the columns x >= 1 of
\* the row that append() has added, leaving s1
storeRest(s1, line) ==
    IF s1.exc # "none" \/ Len(line) = 1 THEN s1
    ELSE WriteCells(s1, 1 + s1.m * (s1.n - 1), Tail(line))

\* readTextFileMatrix(): the loop over the lines; a blank line is <<>>.  An
\* exception thrown by append() ends the loop.
RECURSIVE readLines(_, _, _)
readLines(s, lines, gs) ==
    IF lines = <<>> \/ s.crashed \/ s.exc # "none" THEN s
    ELSE IF Head(lines) = <<>> THEN readLines(s, Tail(lines), gs)
    ELSE readLines(storeRest(append(s, Head(lines)[1], 0, gs), Head(lines)),
                   Tail(lines), gs)

\* readTextFileMatrix(filename, numHeaders, mat); file is [exists, lines]
readTextFileMatrix(s, file, gs) ==
    IF ~file.exists THEN s ELSE readLines(s, file.lines, gs)

\* readTextFile(): the call of readTextFileMatrix(), once setN(0) has
\* returned s1
readInto(s1, file, gs) ==
    IF s1.exc # "none" THEN s1 ELSE readTextFileMatrix(s1, file, gs)

\* Matrix::readTextFile(filename, numHeaders)
readTextFile(s, file, gs) == readInto(setN(s, 0, gs), file, gs)

(***************************************************************************)
(* Element access and column reordering                                    *)
(***************************************************************************)
\* throw IndexException(name, val, maxval)
IndexException(s, name, val, maxval) ==
    [s EXCEPT !.exc = "IndexException", !.ret = <<name, val, maxval>>]

\* Matrix::getIndex(n, m): checkIndex("n",n,_n), checkIndex("m",m,_m), then
\* the index m+(_m*n), left in ret
getIndex(s, n, m) ==
    IF checkIndex(n, s.n) THEN IndexException(s, "n", n, s.n)
    ELSE IF checkIndex(m, s.m) THEN IndexException(s, "m", m, s.m)
    ELSE [s EXCEPT !.ret = m + (s.m * n)]

\* return data[i], i being the index getIndex() left in s1; a load through a
\* null pointer kills the process
loadAt(s1, gs) ==
    IF s1.exc # "none" THEN s1
    ELSE IF s1.data = "null" THEN [s1 EXCEPT !.crashed = TRUE, !.ret = << >>]
    ELSE [s1 EXCEPT !.ret = Cell(s1, s1.ret, gs),
                    !.ub = @ \/ (s1.ret >= s1.buflen)]

\* Matrix::getAt(n, m)
getAt(s, n, m, gs) == loadAt(getIndex(s, n, m), gs)

\* data[i]=t, i being the index getIndex() left in s1
storeAt(s1, t) ==
    IF s1.exc # "none" THEN s1
    ELSE [WriteCells(s1, s1.ret, <<t>>) EXCEPT !.ret = << >>]

\* Matrix::setAt(t, n, m)
setAt(s, t, n, m) == storeAt(getIndex(s, n, m), t)

\* reorderColumns(): the first j whose orderinds[j] fails checkIndex (from 1)
firstBad(orderinds, m) ==
    CHOOSE j \in 1..m :
        /\ checkIndex(orderinds[j], m)
        /\ \A k \in 1..(j - 1) : ~checkIndex(orderinds[k], m)

\* reorderColumns(): at(i,j)=buff[orderinds[j]] for every row i and column j,
\* buff being the row as it was; cells are the n*m elements as read
reordered(cells, orderinds, m) ==
    [k \in 1..Len(cells) |->
        cells[((k - 1) \div m) * m + orderinds[((k - 1) % m) + 1] + 1]]

\* the first cnt elements of the block of s, each as at(i,j) reads it
readAll(s, cnt, gs) == [k \in 1..cnt |-> Cell(s, k - 1, gs)]

\* Matrix::reorderColumns(orderinds); orderinds[j] is the code's
\* orderinds[j-1].  buff=new T[_m] comes first and is not freed when a check
\* throws.
reorderColumns(s, orderinds, gs) ==
    IF \E j \in 1..s.m : checkIndex(orderinds[j], s.m)
    THEN [IndexException(s, "sortinds", orderinds[firstBad(orderinds, s.m)],
                         s.m)
          EXCEPT !.allocs = @ + 1]
    ELSE IF s.n * s.m = 0 THEN [s EXCEPT !.allocs = @ + 1]
    ELSE IF s.data = "null" THEN [s EXCEPT !.crashed = TRUE, !.allocs = @ + 1]
    ELSE [WriteCells(s, 0, reordered(readAll(s, s.n * s.m, gs), orderinds,
                                     s.m))
          EXCEPT !.allocs = @ + 1, !.ub = @ \/ (s.n * s.m > s.buflen)]

(***************************************************************************)
(* Byte order.  A real is the sequence of its 8 bytes, an indexval or a    *)
(* float that of its 4 bytes, in memory order; a vec3 is <<x, y, z>> and a *)
(* color <<r, g, b, a>>.                                                   *)
(***************************************************************************)
\* swapEndian32(t): dst.b[0]=src.b[3] ... dst.b[3]=src.b[0]
swapEndian32(t) == <<t[4], t[3], t[2], t[1]>>

\* a swapEndian64() that moves every byte up one place
swapEndian64Shifted(t) == <<t[8], t[1], t[2], t[3], t[4], t[5], t[6], t[7]>>

\* swapEndian64(t): dst.b[0]=src.b[7] ... dst.b[7]=src.b[0]
swapEndian64(t) == <<t[8], t[7], t[6], t[5], t[4], t[3], t[2], t[1]>>

\* SwapEndian<real>::swap
SwapEndianReal(t) == swapEndian64(t)

\* SwapEndian<indexval>::swap
SwapEndianIndexval(t) == swapEndian32(t)

\* SwapEndian<vec3>::swap; the vec3 constructor stores its arguments
SwapEndianVec3(t) == <<swapEndian64(t[1]), swapEndian64(t[2]), swapEndian64(t[3])>>

\* SwapEndian<color>::swap; the color constructor stores its arguments
SwapEndianColor(t) ==
    <<swapEndian32(t[1]), swapEndian32(t[2]), swapEndian32(t[3]),
      swapEndian32(t[4])>>

\* Matrix<real>::swapEndian() on the matrix mat = [n, m, cells], cells being
\* the allocated block: data[i]=SwapEndian<T>::swap(data[i]) for i < _n*_m
swapEndian(mat) ==
    [mat EXCEPT !.cells = [i \in DOMAIN @ |->
                             IF i <= mat.n * mat.m THEN SwapEndianReal(@[i])
                             ELSE @[i]]]

(***************************************************************************)
(* Real arithmetic.  A real is the exact rational <<p, q>> in lowest terms *)
(* with q > 0.  The values explored are dyadic rationals of a few bits, on *)
(* which every operation below is exact in double precision as well, so    *)
(* that the double the code computes is the rational computed here.        *)
(***************************************************************************)
Abs(x) == IF x < 0 THEN 0 - x ELSE x

RECURSIVE GCD(_, _)
GCD(a, b) == IF b = 0 THEN a ELSE GCD(b, a % b)

\* p/q for q > 0, g being a common divisor of p and q
Reduce(p, q, g) == <<p \div g, q \div g>>

\* the real p/q, q # 0
Real(p, q) ==
    IF q < 0 THEN Reduce(0 - p, 0 - q, GCD(Abs(p), 0 - q))
    ELSE Reduce(p, q, GCD(Abs(p), q))

Zero == <<0, 1>>
One == <<1, 1>>

\* a+b, a-b, a*b, a/b (b # 0) and -a on reals.  An operation is a function
\* of reals: it is applied to the values of its operands, as the code's is.
Pairs == Int \X Int
Plus(a, b) ==
    [x \in Pairs, y \in Pairs |->
        Real(x[1] * y[2] + y[1] * x[2], x[2] * y[2])][a, b]
Minus(a, b) ==
    [x \in Pairs, y \in Pairs |->
        Real(x[1] * y[2] - y[1] * x[2], x[2] * y[2])][a, b]
Times(a, b) ==
    [x \in Pairs, y \in Pairs |-> Real(x[1] * y[1], x[2] * y[2])][a, b]
Over(a, b) ==
    [x \in Pairs, y \in Pairs |-> Real(x[1] * y[2], x[2] * y[1])][a, b]
Neg(a) == <<0 - a[1], a[2]>>

\* a<b and a<=b on reals
Less(a, b) == a[1] * b[2] < b[1] * a[2]
LessEq(a, b) == a[1] * b[2] <= b[1] * a[2]

\* fabs(a)
fabs(a) == <<Abs(a[1]), a[2]>>

\* the only element of the set S.  Only({F(x) : x \in {e}}) is F(e) with e
\* evaluated once, before F is.
Only(S) == CHOOSE x \in S : TRUE

\* the sum of the reals of a sequence, added from the left
RECURSIVE SumOf(_)
SumOf(cs) ==
    IF Len(cs) = 0 THEN Zero
    ELSE Plus(SumOf(SubSeq(cs, 1, Len(cs) - 1)), cs[Len(cs)])

(***************************************************************************)
(* Basis functions (RenderTypes.cpp)                                       *)
(***************************************************************************)
\* basis_Tet1NL(xi0, xi1, xi2, coeffs): the 4 coefficients
basis_Tet1NL(xi0, xi1, xi2) ==
    <<Minus(Minus(Minus(One, xi0), xi1), xi2), xi0, xi1, xi2>>

\* a basis_Hex1NL() whose first coefficient lacks the xi0*xi1*xi2 term
hexCoeffsShort(xi0, xi1, xi2, xi01, xi02, xi12, xi012) ==
    <<Plus(Plus(Plus(Minus(Minus(Minus(One, xi0), xi1), xi2), xi01), xi02),
           xi12),
      Plus(Minus(Minus(xi0, xi01), xi02), xi012),
      Plus(Minus(Minus(xi1, xi01), xi12), xi012),
      Minus(xi01, xi012),
      Plus(Minus(Minus(xi2, xi02), xi12), xi012),
      Minus(xi02, xi012),
      Minus(xi12, xi012),
      xi012>>

\* basis_Hex1NL(): coeffs[0..7] from xi and the products computed first
hexCoeffs(xi0, xi1, xi2, xi01, xi02, xi12, xi012) ==
    <<Minus(Plus(Plus(Plus(Minus(Minus(Minus(One, xi0), xi1), xi2), xi01),
                      xi02), xi12), xi012),
      Plus(Minus(Minus(xi0, xi01), xi02), xi012),
      Plus(Minus(Minus(xi1, xi01), xi12), xi012),
      Minus(xi01, xi012),
      Plus(Minus(Minus(xi2, xi02), xi12), xi012),
      Minus(xi02, xi012),
      Minus(xi12, xi012),
      xi012>>

\* basis_Hex1NL(xi0, xi1, xi2, coeffs): the 8 coefficients
basis_Hex1NL(xi0, xi1, xi2) ==
    hexCoeffs(xi0, xi1, xi2, Times(xi0, xi1), Times(xi0, xi2),
              Times(xi1, xi2), Times(Times(xi0, xi1), xi2))

(***************************************************************************)
(* vec3: the vector <<x, y, z>> of reals                                   *)
(***************************************************************************)
\* comparisons with a margin of dEPSILON = 1.0e-10: a-dEPSILON < b and
\* a <= b+dEPSILON.  Two different reals of this model differ by at least
\* 1/(product of their denominators), and that product is below 2^31 (TLC
\* stops with an error otherwise), so they differ by more than dEPSILON and
\* both comparisons are a <= b.
LessEps(a, b) == LessEq(a, b)
LessEqEps(a, b) == LessEq(a, b)

\* _min(a, b) and _max(a, b) on reals
MinReal(a, b) == IF Less(a, b) THEN a ELSE b
MaxReal(a, b) == IF Less(b, a) THEN a ELSE b

\* vec3(val)
vec3(val) == <<val, val, val>>

\* vec3 operator+, operator-, operator*(real), as functions of the values
\* of their operands
Vecs == Pairs \X Pairs \X Pairs
VPlus(v, w) ==
    [a \in Vecs, b \in Vecs |->
        <<Plus(a[1], b[1]), Plus(a[2], b[2]), Plus(a[3], b[3])>>][v, w]
VMinus(v, w) ==
    [a \in Vecs, b \in Vecs |->
        <<Minus(a[1], b[1]), Minus(a[2], b[2]), Minus(a[3], b[3])>>][v, w]
VTimes(v, r) ==
    [a \in Vecs, x \in Pairs |->
        <<Times(a[1], x), Times(a[2], x), Times(a[3], x)>>][v, r]

\* vec3::cross and vec3::dot
cross(v, w) ==
    [a \in Vecs, b \in Vecs |->
        <<Minus(Times(a[2], b[3]), Times(a[3], b[2])),
          Minus(Times(a[3], b[1]), Times(a[1], b[3])),
          Minus(Times(a[1], b[2]), Times(a[2], b[1]))>>][v, w]
dot(v, w) ==
    [a \in Vecs, b \in Vecs |->
        Plus(Plus(Times(a[1], b[1]), Times(a[2], b[2])),
             Times(a[3], b[3]))][v, w]

\* vec3::setMinVals and vec3::setMaxVals, as the value `this' takes
setMinVals(v, w) ==
    <<MinReal(v[1], w[1]), MinReal(v[2], w[2]), MinReal(v[3], w[3])>>
setMaxVals(v, w) ==
    <<MaxReal(v[1], w[1]), MaxReal(v[2], w[2]), MaxReal(v[3], w[3])>>

\* the smallest and the largest corner of the box around the vectors ns:
\* minv = ns[1], then minv.setMinVals(ns[k]) for k = 2, 3, ... (maxv alike)
RECURSIVE minFrom(_, _, _)
minFrom(ns, k, minv) ==
    IF k > Len(ns) THEN minv
    ELSE Only({minFrom(ns, k + 1, next) : next \in {setMinVals(minv, ns[k])}})
minCorner(ns) == minFrom(ns, 2, ns[1])
RECURSIVE maxFrom(_, _, _)
maxFrom(ns, k, maxv) ==
    IF k > Len(ns) THEN maxv
    ELSE Only({maxFrom(ns, k + 1, next) : next \in {setMaxVals(maxv, ns[k])}})
maxCorner(ns) == maxFrom(ns, 2, ns[1])

\* an inAABB() without the margin: the faces of the box are outside
inAABBStrict(v, minv, maxv) ==
    /\ \A k \in 1..3 : Less(minv[k], v[k])
    /\ \A k \in 1..3 : Less(v[k], maxv[k])

\* vec3::inAABB(minv, maxv): *this>minv && *this<maxv
inAABB(v, minv, maxv) ==
    /\ \A k \in 1..3 : LessEps(minv[k], v[k])
    /\ \A k \in 1..3 : LessEps(v[k], maxv[k])

\* a real that is infinite or not a number: the result of a division by 0
NonFinite == <<1, 0>>
IsFinite(a) == a[2] # 0

\* an isInUnitCube() that accepts every finite vector
isInUnitCubeAlways(v) == \A k \in 1..3 : IsFinite(v[k])

\* vec3::isInUnitCube() with margin 0; a comparison with a non-finite value
\* that is infinite or not a number fails for one bound at least
isInUnitCube(v) ==
    \A k \in 1..3 :
        IsFinite(v[k]) /\ LessEq(Zero, v[k]) /\ LessEq(v[k], One)

(***************************************************************************)
(* Point search (RenderTypes.cpp)                                          *)
(***************************************************************************)
\* the vector returned when the point was not found: vec3(-1)
NotFound == vec3(<<0 - 1, 1>>)

\* invdet*num with invdet = 1.0/det: infinite or not a number when det is 0
timesInverse(det, num) ==
    IF det = Zero THEN NonFinite ELSE Times(Over(One, det), num)

\* pointSearchLinTet(): xi1, xi2, xi3 from d = pt-n1 and the edges
\* e2 = n2-n1, e3 = n3-n1, e4 = n4-n1 (dx is d[1], dz4 is e4[3], ...)
tetXi(d, e2, e3, e4) ==
    <<timesInverse(
          Plus(Minus(Times(e2[1], Minus(Times(e4[3], e3[2]), Times(e3[3], e4[2]))),
                     Times(e2[2], Minus(Times(e4[3], e3[1]), Times(e3[3], e4[1])))),
               Times(e2[3], Minus(Times(e4[2], e3[1]), Times(e3[2], e4[1])))),
          Plus(Plus(Times(d[1], Minus(Times(e4[3], e3[2]), Times(e3[3], e4[2]))),
                    Times(d[2], Minus(Times(e3[3], e4[1]), Times(e4[3], e3[1])))),
               Times(d[3], Minus(Times(e4[2], e3[1]), Times(e3[2], e4[1]))))),
      timesInverse(
          Plus(Minus(Times(e2[1], Minus(Times(e4[3], e3[2]), Times(e3[3], e4[2]))),
                     Times(e2[2], Minus(Times(e4[3], e3[1]), Times(e3[3], e4[1])))),
               Times(e2[3], Minus(Times(e4[2], e3[1]), Times(e3[2], e4[1])))),
          Plus(Plus(Times(d[1], Minus(Times(e2[3], e4[2]), Times(e4[3], e2[2]))),
                    Times(d[2], Minus(Times(e4[3], e2[1]), Times(e2[3], e4[1])))),
               Times(d[3], Minus(Times(e2[2], e4[1]), Times(e4[2], e2[1]))))),
      timesInverse(
          Plus(Minus(Times(e2[1], Minus(Times(e4[3], e3[2]), Times(e3[3], e4[2]))),
                     Times(e2[2], Minus(Times(e4[3], e3[1]), Times(e3[3], e4[1])))),
               Times(e2[3], Minus(Times(e4[2], e3[1]), Times(e3[2], e4[1])))),
          Plus(Plus(Times(d[1], Minus(Times(e3[3], e2[2]), Times(e2[3], e3[2]))),
                    Times(d[2], Minus(Times(e2[3], e3[1]), Times(e3[3], e2[1])))),
               Times(d[3], Minus(Times(e3[2], e2[1]), Times(e2[2], e3[1])))))>>

\* pointSearchLinTet(pt, n1, n2, n3, n4), tet being <<n1, n2, n3, n4>>
pointSearchLinTet(pt, tet) ==
    IF ~inAABB(pt, minCorner(tet), maxCorner(tet)) THEN NotFound
    ELSE Only({tetXi(d, e2, e3, e4) :
                 d \in {VMinus(pt, tet[1])}, e2 \in {VMinus(tet[2], tet[1])},
                 e3 \in {VMinus(tet[3], tet[1])}, e4 \in {VMinus(tet[4], tet[1])}})

\* divtets[5][4]: the xi values that divide a hex into 5 tets
divtets ==
    <<<<vec3(Zero), <<One, Zero, One>>, <<One, One, Zero>>, <<Zero, One, One>>>>,
      <<vec3(Zero), <<One, One, Zero>>, <<Zero, One, Zero>>, <<Zero, One, One>>>>,
      <<vec3(Zero), <<One, Zero, One>>, <<Zero, One, One>>, <<Zero, Zero, One>>>>,
      <<<<One, Zero, One>>, <<One, One, Zero>>, <<Zero, One, One>>, vec3(One)>>,
      <<vec3(Zero), <<One, Zero, Zero>>, <<One, One, Zero>>, <<One, Zero, One>>>>>>

\* v[1]*coeffs[1] + ... + v[k]*coeffs[k], added from the left: sum holds
\* the terms before the k-th
RECURSIVE weightedFrom(_, _, _, _)
weightedFrom(vs, coeffs, k, sum) ==
    IF k > Len(vs) THEN sum
    ELSE Only({weightedFrom(vs, coeffs, k + 1, next) :
                 next \in {VPlus(sum, VTimes(vs[k], coeffs[k]))}})
weighted(vs, coeffs) == weightedFrom(vs, coeffs, 2, VTimes(vs[1], coeffs[1]))

\* pointSearchLinHex(): the hex ns = <<n1, ..., n8>> interpolated at xi
interpolated(ns, xi) ==
    Only({weighted(ns, coeffs) :
            coeffs \in {basis_Hex1NL(xi[1], xi[2], xi[3])}})

\* pointSearchLinHex(): the vertices of tet t (from 0) within the hex ns
hexTet(ns, t) ==
    <<interpolated(ns, divtets[t + 1][1]), interpolated(ns, divtets[t + 1][2]),
      interpolated(ns, divtets[t + 1][3]), interpolated(ns, divtets[t + 1][4])>>

\* pointSearchLinHex(): the test that xi lies in the simplex
inSimplex(xi) ==
    /\ isInUnitCube(xi)
    /\ LessEqEps(Plus(Plus(xi[1], xi[2]), xi[3]), One)

\* pointSearchLinHex(): the loop from tet t on; tetFound handles the xi that
\* pointSearchLinTet() returned for tet t
RECURSIVE searchTets(_, _, _)
tetFound(pt, ns, t, xi) ==
    IF inSimplex(xi)
    THEN Only({weighted(divtets[t + 1], coeffs) :
                 coeffs \in {basis_Tet1NL(xi[1], xi[2], xi[3])}})
    ELSE searchTets(pt, ns, t + 1)

searchTets(pt, ns, t) ==
    IF t = 5 THEN NotFound
    ELSE Only({tetFound(pt, ns, t, xi) :
                 xi \in {pointSearchLinTet(pt, tet) : tet \in {hexTet(ns, t)}}})

\* pointSearchLinHex(pt, n1, ..., n8), ns being <<n1, ..., n8>>
pointSearchLinHex(pt, ns) ==
    IF ~inAABB(pt, minCorner(ns), maxCorner(ns)) THEN NotFound
    ELSE searchTets(pt, ns, 0)

(***************************************************************************)
(* Plane and value intersections of a hexahedron                           *)
(***************************************************************************)
\* lerp(val, v1, v2) = v1+(v2-v1)*val on reals and on vectors
lerp(val, v1, v2) == Plus(v1, Times(Minus(v2, v1), val))
lerpVec(val, v1, v2) == VPlus(v1, VTimes(VMinus(v2, v1), val))

\* vec3::planeDist(planept, planenorm) of the vector v
planeDist(v, planept, planenorm) == dot(planenorm, VMinus(v, planept))

\* the sign planeOrder() returns for the real `order'
orderSign(order) ==
    IF Less(Zero, order) THEN 1 ELSE IF Less(order, Zero) THEN 0 - 1 ELSE 0

\* vec3::planeOrder(planenorm, v1, v2) of the vector this
planeOrder(this, planenorm, v1, v2) ==
    orderSign(dot(cross(VMinus(v1, this), VMinus(v2, this)), planenorm))

\* calculateHexValueIntersects(): indices of the edges between the vertices
indices ==
    <<<<0, 1>>, <<1, 3>>, <<3, 2>>, <<2, 0>>, <<4, 5>>, <<5, 7>>,
      <<7, 6>>, <<6, 4>>, <<0, 4>>, <<1, 5>>, <<2, 6>>, <<3, 7>>>>

\* an edge test that also takes an edge with an end at val on either side
intersectedTouching(h1, h2, val) ==
    IF LessEq(val, h1) THEN LessEq(h2, val) ELSE LessEq(val, h2)

\* calculateHexValueIntersects(): h1>=val ? h2<val : h2>=val
intersected(h1, h2, val) ==
    IF LessEq(val, h1) THEN Less(h2, val) ELSE LessEq(val, h2)

\* an intersect() whose xi is measured from the second vertex
intersectFromSecond(i1, i2, abs1, abs2) ==
    <<i1, i2,
      IF Plus(abs1, abs2) = Zero THEN Zero ELSE Over(abs2, Plus(abs1, abs2))>>

\* calculateHexValueIntersects(): intersect(i1,i2,vsum==0 ? 0 :
\* (absvals[i1]/vsum)), abs1 and abs2 being absvals[i1] and absvals[i2]
intersect(i1, i2, abs1, abs2) ==
    <<i1, i2,
      IF Plus(abs1, abs2) = Zero THEN Zero ELSE Over(abs1, Plus(abs1, abs2))>>

\* calculateHexValueIntersects(): the edges of `indices', in their order,
\* whose ends pass the test
crossedEdges(val, vals) ==
    SelectSeq(indices,
              LAMBDA e : intersected(vals[e[1] + 1], vals[e[2] + 1], val))

\* calculateHexValueIntersects(): the loop ends when count reaches 6, so
\* that the first 6 of the edges es are taken
untilSix(es) == SubSeq(es, 1, IF Len(es) < 6 THEN Len(es) ELSE 6)

\* calculateHexValueIntersects(): results[count] for each of the edges es
intersectsOf(val, vals, es) ==
    [k \in 1..Len(es) |->
        intersect(es[k][1], es[k][2],
                  fabs(Minus(val, vals[es[k][1] + 1])),
                  fabs(Minus(val, vals[es[k][2] + 1])))]

\* calculateHexValueIntersects(val, vals, results): the intersects written
\* to results; their number is the value returned
calculateHexValueIntersects(val, vals) ==
    Only({intersectsOf(val, vals, es) :
            es \in {untilSix(crossedEdges(val, vals))}})

\* OgreTextureVolumeFigure::setCube(cube, minv, maxv)
setCube(minv, maxv) ==
    <<minv,
      <<maxv[1], minv[2], minv[3]>>,
      <<minv[1], maxv[2], minv[3]>>,
      <<maxv[1], maxv[2], minv[3]>>,
      <<minv[1], minv[2], maxv[3]>>,
      <<maxv[1], minv[2], maxv[3]>>,
      <<minv[1], maxv[2], maxv[3]>>,
      maxv>>

\* getPlaneIntersects(): the position and uvw coordinates of the intersect c
\* in the figure fig = [boundcube, texcube]
planevert(fig, c) ==
    <<lerpVec(c[3], fig.boundcube[c[1] + 1], fig.boundcube[c[2] + 1]),
      lerpVec(c[3], fig.texcube[c[1] + 1], fig.texcube[c[2] + 1])>>

\* bswap(interpts[jj], interpts[jj-1]), jj counted from 1
swapped(interpts, jj) ==
    SubSeq(interpts, 1, jj - 2) \o <<interpts[jj], interpts[jj - 1]>>
        \o SubSeq(interpts, jj + 1, Len(interpts))

\* getPlaneIntersects(): the loop that moves the vertex added at jj (from 1)
\* up the list
RECURSIVE moveUp(_, _, _, _)
moveUp(interpts, jj, planept, planenorm) ==
    IF jj > 1 /\ planeOrder(planept, planenorm, interpts[jj][1],
                            interpts[jj - 1][1]) > 0
    THEN Only({moveUp(moved, jj - 1, planept, planenorm) :
                 moved \in {swapped(interpts, jj)}})
    ELSE interpts

\* getPlaneIntersects(): the loop over the intersects from j (from 1) on;
\* the first position replaces planept
RECURSIVE fillPoints(_, _, _, _, _, _)
fillPoints(fig, bbintersects, j, interpts, planept, planenorm) ==
    IF j > Len(bbintersects) THEN interpts
    ELSE IF j = 1
    THEN Only({fillPoints(fig, bbintersects, 2, <<first>>, first[1],
                          planenorm) :
                 first \in {planevert(fig, bbintersects[1])}})
    ELSE Only({fillPoints(fig, bbintersects, j + 1, ordered, planept,
                          planenorm) :
                 ordered \in {moveUp(Append(interpts,
                                            planevert(fig, bbintersects[j])),
                                     j, planept, planenorm)}})

\* getPlaneIntersects(): heights[i]
heightsOf(fig, planept, planenorm) ==
    [i \in 1..8 |-> planeDist(fig.boundcube[i], planept, planenorm)]

\* TextureVolumeRenderable::getPlaneIntersects(planept, planenorm) on the
\* figure fig: the vertices left in interpts; their number is returned
getPlaneIntersects(fig, planept, planenorm) ==
    Only({fillPoints(fig, bbintersects, 1, << >>, planept, planenorm) :
            bbintersects \in
              {calculateHexValueIntersects(
                   Zero, heightsOf(fig, planept, planenorm))}})

(***************************************************************************)
(* Ray (RenderTypes.h).  sqrt() is computed on the reals whose root is a   *)
(* real of this model, the squares of rationals; the vectors explored are  *)
(* those whose lengths, where the code takes them, are such roots.         *)
(***************************************************************************)
\* the largest integer whose square is at most n
isqrt(n) == CHOOSE r \in 0..n : r * r <= n /\ (r + 1) * (r + 1) > n

\* a is the square of a real of the model
IsSquare(a) ==
    /\ a[1] >= 0
    /\ isqrt(a[1]) * isqrt(a[1]) = a[1]
    /\ isqrt(a[2]) * isqrt(a[2]) = a[2]

\* sqrt(a) of a square
sqrt(a) == <<isqrt(a[1]), isqrt(a[2])>>

\* equalsEpsilon(v1, v2): fabs(v1-v2)<=dEPSILON.  Two different reals of
\* this model differ by more than dEPSILON, so the test is v1-v2 = 0.
equalsEpsilon(v1, v2) == fabs(Minus(v1, v2)) = Zero

\* vec3::isZero(): equalsEpsilon(_x+_y+_z,0.0)
isZero(v) == equalsEpsilon(Plus(Plus(v[1], v[2]), v[3]), Zero)

\* vec3::lenSq(), len(), distTo(v), distToSq(v)
lenSq(v) == Plus(Plus(Times(v[1], v[1]), Times(v[2], v[2])), Times(v[3], v[3]))
len(v) == sqrt(lenSq(v))
distTo(v, w) == len(VMinus(v, w))
distToSq(v, w) == lenSq(VMinus(v, w))

\* vec3::norm(): l==0.0 ? vec3() : (*this)*(1.0/l)
norm(v) ==
    Only({IF l = Zero THEN vec3(Zero) ELSE VTimes(v, Over(One, l)) :
            l \in {len(v)}})

\* vec3::inv(): the inverse of each component, 0 for a component of 0
inv(v) == [k \in 1..3 |-> IF v[k] # Zero THEN Over(One, v[k]) ELSE Zero]

\* vec3::operator/(real)
VOver(v, r) == <<Over(v[1], r), Over(v[2], r), Over(v[3], r)>>

\* Ray::setDirection(v) of a ray at pos: the fields of the ray it leaves
\* when it does not throw
setDirection(pos, v) ==
    Only({[pos |-> pos, dir |-> d, invdir |-> inv(d),
           signx |-> Less(inv(d)[1], Zero),
           signy |-> Less(inv(d)[2], Zero),
           signz |-> Less(inv(d)[3], Zero)] : d \in {norm(v)}})

\* Ray::getPosition(t)
getPosition(ray, t) == VPlus(ray.pos, VTimes(ray.dir, t))

\* what intersectsTri() returns for no intersection, intersectsAABB() alike
NoTri == <<Neg(One), Neg(One), Neg(One)>>
NoAABB == <<Neg(One), Neg(One)>>

\* Ray::intersectsTri(v0, v1, v2) from its first values; x*invdet is x/det
\* on the reals
triFrom(dir, e1, e2, p, det, t, q) ==
    IF equalsEpsilon(det, Zero) THEN NoTri
    ELSE Only({IF Less(u, Zero) \/ Less(One, u) THEN NoTri
               ELSE Only({IF Less(v, Zero) \/ Less(One, Plus(u, v)) THEN NoTri
                          ELSE Only({IF Less(Zero, l) THEN <<l, u, v>>
                                     ELSE NoTri :
                                       l \in {Over(dot(e2, q), det)}}) :
                            v \in {Over(dot(dir, q), det)}}) :
                 u \in {Over(dot(p, t), det)}})

\* an intersectsTri() that accepts every u and v
intersectsTriPlane(ray, v0, v1, v2) ==
    LET e1 == VMinus(v1, v0)
        e2 == VMinus(v2, v0)
        p == cross(ray.dir, e2)
        det == dot(e1, p)
        t == VMinus(ray.pos, v0)
        q == cross(t, e1)
    IN  IF equalsEpsilon(det, Zero) THEN NoTri
        ELSE IF Less(Zero, Over(dot(e2, q), det))
             THEN <<Over(dot(e2, q), det), Over(dot(p, t), det),
                    Over(dot(ray.dir, q), det)>>
             ELSE NoTri

\* Ray::intersectsTri(v0, v1, v2)
intersectsTri(ray, v0, v1, v2) ==
    Only({Only({triFrom(ray.dir, e[1], e[2], p, dot(e[1], p), e[3],
                        cross(e[3], e[1])) :
                  p \in {cross(ray.dir, e[2])}}) :
            e \in {<<VMinus(v1, v0), VMinus(v2, v0), VMinus(ray.pos, v0)>>}})

\* Ray::intersectsAABB(minv, maxv)
near(sign, minv, maxv, k) == IF sign THEN maxv[k] ELSE minv[k]
far(sign, minv, maxv, k) == IF sign THEN minv[k] ELSE maxv[k]
slab(ray, sign, minv, maxv, k) ==
    <<Times(Minus(near(sign, minv, maxv, k), ray.pos[k]), ray.invdir[k]),
      Times(Minus(far(sign, minv, maxv, k), ray.pos[k]), ray.invdir[k])>>
clip(t, s) ==
    <<IF Less(t[1], s[1]) THEN s[1] ELSE t[1],
      IF Less(s[2], t[2]) THEN s[2] ELSE t[2]>>
missed(t, s) == Less(s[2], t[1]) \/ Less(t[2], s[1])
aabbFrom(tx, ty, tz) ==
    IF missed(tx, ty) THEN NoAABB
    ELSE IF missed(clip(tx, ty), tz) THEN NoAABB
    ELSE clip(clip(tx, ty), tz)
intersectsAABB(ray, minv, maxv) ==
    Only({aabbFrom(s[1], s[2], s[3]) :
            s \in {<<slab(ray, ray.signx, minv, maxv, 1),
                     slab(ray, ray.signy, minv, maxv, 2),
                     slab(ray, ray.signz, minv, maxv, 3)>>}})

\* Ray::intersectsTriMesh(): the triangle n of the mesh, its centre and its
\* squared radius, read from centers and radii2 or calculated
triOf(mesh, n) ==
    [k \in 1..3 |-> mesh.nodes[mesh.inds[n + 1][k] + 1]]
centerOf(mesh, n) ==
    IF mesh.spheres THEN mesh.centers[n + 1]
    ELSE VOver(VPlus(VPlus(triOf(mesh, n)[1], triOf(mesh, n)[2]),
                     triOf(mesh, n)[3]), Real(3, 1))
radOf(mesh, n, ncenter) ==
    IF mesh.spheres THEN mesh.radii2[n + 1]
    ELSE MaxReal(distToSq(ncenter, triOf(mesh, n)[1]),
                 MaxReal(distToSq(ncenter, triOf(mesh, n)[2]),
                         distToSq(ncenter, triOf(mesh, n)[3])))

\* the test of the bounding sphere: TRUE when the triangle is passed over
outOfSphere(ray, ncenter, nrad) ==
    Less(nrad, distToSq(getPosition(ray, distTo(ncenter, ray.pos)), ncenter))

\* the results of the loop body for triangle n
triResult(ray, mesh, n) ==
    Only({IF outOfSphere(ray, c, radOf(mesh, n, c)) THEN << >>
          ELSE Only({IF LessEq(Zero, inter[1]) THEN <<<<n, inter>>>>
                     ELSE << >> :
                       inter \in {intersectsTri(ray, triOf(mesh, n)[1],
                                                triOf(mesh, n)[2],
                                                triOf(mesh, n)[3])}}) :
            c \in {centerOf(mesh, n)}})

meshLen(mesh) ==
    IF mesh.spheres
    THEN Min(Len(mesh.inds), Min(Len(mesh.centers), Len(mesh.radii2)))
    ELSE Len(mesh.inds)

RECURSIVE triMeshFrom(_, _, _, _, _, _)
triMeshFrom(ray, mesh, numResults, excludeInd, n, results) ==
    IF ~(n < meshLen(mesh) /\ (numResults = 0 \/ Len(results) < numResults))
    THEN results
    ELSE IF n = excludeInd
    THEN triMeshFrom(ray, mesh, numResults, excludeInd, n + 1, results)
    ELSE Only({triMeshFrom(ray, mesh, numResults, excludeInd, n + 1, next) :
                 next \in {results \o triResult(ray, mesh, n)}})
intersectsTriMesh(ray, mesh, numResults, excludeInd) ==
    triMeshFrom(ray, mesh, numResults, excludeInd, 0, << >>)

(***************************************************************************)
(* Slices of a triangle by a plane (RenderTypes.cpp)                       *)
(***************************************************************************)
\* realtriple(): the three values are 0
NoSlice == <<Zero, Zero, Zero>>

\* the value of calculateTriPlaneSlice() for the sum dsum: dist/dsum, and
\* the 0 of realtriple() when dsum is not positive
sliceValue(dist, dsum) == IF Less(Zero, dsum) THEN Over(dist, dsum) ELSE Zero

\* calculateTriPlaneSlice() from the distances of a, b and c to the plane
sliceFrom(adist, bdist, cdist) ==
    IF \/ adist = bdist /\ bdist = cdist
       \/ LessEq(Zero, adist) /\ LessEq(Zero, bdist) /\ LessEq(Zero, cdist)
       \/ LessEq(adist, Zero) /\ LessEq(bdist, Zero) /\ LessEq(cdist, Zero)
    THEN NoSlice
    ELSE <<sliceValue(adist, Plus(fabs(adist), fabs(bdist))),
           sliceValue(bdist, Plus(fabs(bdist), fabs(cdist))),
           sliceValue(cdist, Plus(fabs(adist), fabs(cdist)))>>

\* calculateTriPlaneSlice(planept, planenorm, a, b, c); vec3::operator==
\* compares the components with equalsEpsilon
calculateTriPlaneSlice(planept, planenorm, a, b, c) ==
    IF a = b \/ b = c \/ a = c THEN NoSlice
    ELSE Only({sliceFrom(d[1], d[2], d[3]) :
                 d \in {<<planeDist(a, planept, planenorm),
                          planeDist(b, planept, planenorm),
                          planeDist(c, planept, planenorm)>>}})

(***************************************************************************)
(* MetaType (RenderTypes.h): the map _meta from key strings to value       *)
(* strings is a function; a string is the sequence of its characters.      *)
(***************************************************************************)
\* the code of a character
charCode(c) == IF c = "a" THEN 97 ELSE IF c = "b" THEN 98 ELSE 124

\* s < t on std::string: the order of the keys of a std::map
stringLess(s, t) ==
    \E i \in 1..(Len(t)) :
        /\ i <= Len(s) + 1
        /\ \A j \in 1..(i - 1) : s[j] = t[j]
        /\ i = Len(s) + 1 \/ charCode(s[i]) < charCode(t[i])

\* _meta[key]=val
stored(_meta, key, val) ==
    [k \in (DOMAIN _meta) \cup {key} |-> IF k = key THEN val ELSE _meta[k]]

\* a std::string without its | characters
filtered(s) == SelectSeq(s, LAMBDA c : c # "|")

\* MetaType::meta(key, val) with neither argument NULL
meta(_meta, key, val) == stored(_meta, filtered(key), filtered(val))

\* MetaType::serializeMeta(): the pairs of the keys `keys', in the order of
\* the map
RECURSIVE serializeFrom(_, _)
serializeFrom(_meta, keys) ==
    IF keys = {} THEN << >>
    ELSE LET first == CHOOSE k \in keys : \A j \in keys : ~stringLess(j, k)
         IN  first \o <<"|", "|">> \o _meta[first] \o <<"|", "|">>
               \o serializeFrom(_meta, keys \ {first})
serializeMeta(_meta) == serializeFrom(_meta, DOMAIN _meta)

\* the number of characters of s before its first |
RECURSIVE tokenLen(_)
tokenLen(s) ==
    IF s = << >> \/ Head(s) = "|" THEN 0 ELSE 1 + tokenLen(Tail(s))

\* the tokens strtok(buf, "|") and then strtok(NULL, "|") return for buf = s
\* until it returns NULL: a token starts at the first character that is not
\* | and ends before the next |
RECURSIVE strtok(_)
strtok(s) ==
    IF s = << >> THEN << >>
    ELSE IF Head(s) = "|" THEN strtok(Tail(s))
    ELSE <<SubSeq(s, 1, tokenLen(s))>>
           \o strtok(SubSeq(s, tokenLen(s) + 1, Len(s)))

\* MetaType::deserializeMeta(s), the loop from token i on: the map it
\* leaves, and whether it constructed a std::string from the NULL that
\* strtok returned for a value
RECURSIVE deserializeFrom(_, _, _)
deserializeFrom(_meta, tokens, i) ==
    IF i > Len(tokens) THEN [_meta |-> _meta, null |-> FALSE]
    ELSE IF i + 1 > Len(tokens) THEN [_meta |-> _meta, null |-> TRUE]
    ELSE deserializeFrom(stored(_meta, tokens[i], tokens[i + 1]), tokens, i + 2)
deserializeMeta(_meta, s) == deserializeFrom(_meta, strtok(s), 1)

\* a MetaType as constructed: no pairs
NoMeta == [k \in {} |-> << >>]

(***************************************************************************)
(* Mutex (RenderTypes.h).  MutexType is pthread_mutex_t, of the type       *)
(* PTHREAD_MUTEX_RECURSIVE, or CRITICAL_SECTION under WIN32.  A mutex is   *)
(* its owner (a thread, 0 for none), the number of times the owner locked  *)
(* it, and whether it is damaged.                                          *)
(***************************************************************************)
\* Mutex::Mutex()
Mutex(type) == [type |-> type, owner |-> 0, count |-> 0, broken |-> FALSE]

\* trylock_mutex(&_mutex) called by thread t returns true; lock_mutex
\* returns when it does
trylock_mutex(m, t) == ~m.broken /\ m.owner \in {0, t}

\* the mutex when lock_mutex or trylock_mutex gives it to thread t
lockedBy(m, t) == [m EXCEPT !.owner = t, !.count = @ + 1]

\* the mutex when its owner unlocks it
unlocked(m) ==
    IF m.count = 1 THEN [m EXCEPT !.owner = 0, !.count = 0]
    ELSE [m EXCEPT !.count = @ - 1]

\* unlock_mutex(&_mutex) called by thread t: the mutexes it can leave.
\* pthread_mutex_unlock of a recursive mutex fails with EPERM for a thread
\* that is not the owner.  LeaveCriticalSection by such a thread is an
\* error with undefined results: the section stays as it is, is released
\* from its owner, or is damaged so that no thread enters it again.
unlock_mutex(m, t) ==
    IF m.owner = t THEN {unlocked(m)}
    ELSE IF m.type = "pthread_mutex_t" THEN {m}
    ELSE IF m.owner # 0 THEN {m, unlocked(m)}
    ELSE {m, [m EXCEPT !.broken = TRUE]}

\* A thread is [pc, runblock]: runblock is Locker::runblock and pc the
\* position of the thread: "out" of any block, in Mutex::lock for a
\* critical ("lock") or for a trylock ("try"), with its Locker constructed
\* ("enter"), before the "body" of the block and "after" it, and before
\* ~Locker() with the body executed ("done") or not ("skipped").
Outside == [pc |-> "out", runblock |-> FALSE]

\* Locker(p, timeout): Mutex::lock(timeout) with timeout <= 0 has returned
lockTaken(th) == [pc |-> "enter", runblock |-> TRUE]

\* Mutex::lock(timeout) with timeout > 0 has returned `result'
lockTried(th, result) == [pc |-> "enter", runblock |-> result]

\* Locker::loopOnce() as the condition of the for statement
loopOnce(th) ==
    IF ~th.runblock THEN [th EXCEPT !.pc = IF th.pc = "after" THEN "done"
                                           ELSE "skipped"]
    ELSE [pc |-> "body", runblock |-> FALSE]

(***************************************************************************)
(* OgreBaseRenderable and OgreFigure::fillData (OgreRenderTypes.cpp).  A   *)
(* buffer is [null, size, gen, len]: `size' items were allocated, and the  *)
(* first `len' of them hold the first `len' items of the data that the     *)
(* fillData call number `gen' was given (call 0 stands for the zeros of    *)
(* fillDefaultData); the other items hold nothing known.  `over' records   *)
(* that a fill or a copy went beyond the end of a buffer.                  *)
(***************************************************************************)
NoBuff == [null |-> TRUE, size |-> 0, gen |-> 0, len |-> 0]

\* new T[size], and the hardware buffer created with `size' items
newBuff(size) == [null |-> FALSE, size |-> size, gen |-> 0, len |-> 0]

\* OgreBaseRenderable(): no buffers, no vertices, nothing deferred
Renderable(opType) ==
    [_opType |-> opType, vertexData |-> NoBuff, indexData |-> NoBuff,
     _numVertices |-> 0, _numIndices |-> 0,
     localVertBuff |-> NoBuff, localIndBuff |-> NoBuff,
     deferFillOp |-> FALSE, over |-> FALSE]

\* the buffer b after the first n items of the data of call gen were
\* written to it
filled(b, gen, n) == [b EXCEPT !.gen = gen, !.len = Min(n, b.size)]

\* the buffer `to' after n items of the buffer `from' were copied to it
copied(to, from, n) ==
    [to EXCEPT !.gen = from.gen, !.len = Min(Min(n, from.len), to.size)]

\* OgreBaseRenderable::createBuffers(numVerts, numInds, deferCreate);
\* vertexData and indexData stand for the hardware buffers bound to them
createBuffers(o, numVerts, numInds, deferCreate) ==
    IF \/ deferCreate
       \/ /\ ~o.vertexData.null /\ o.vertexData.size = numVerts
          /\ ~o.indexData.null /\ o.indexData.size = numInds
    THEN [o EXCEPT !.deferFillOp = deferCreate,
                   !._numVertices = numVerts, !._numIndices = numInds]
    ELSE [o EXCEPT !.deferFillOp = deferCreate,
                   !._numVertices = numVerts, !._numIndices = numInds,
                   !.vertexData = newBuff(numVerts),
                   !.indexData = newBuff(numInds)]

\* getLocalVertBuff() and getLocalIndBuff(): the object they leave
getLocalVertBuff(o) ==
    IF o.localVertBuff.null /\ o._numVertices > 0
    THEN [o EXCEPT !.localVertBuff = newBuff(o._numVertices)] ELSE o
getLocalIndBuff(o) ==
    IF o.localIndBuff.null /\ o._numIndices > 0
    THEN [o EXCEPT !.localIndBuff = newBuff(o._numIndices)] ELSE o

\* n vertices of call gen are written to the buffer getLocalVertBuff()
\* returns, n indices to the one getLocalIndBuff() returns
fillVerts(o, gen, n) ==
    [getLocalVertBuff(o) EXCEPT
       !.localVertBuff = filled(getLocalVertBuff(o).localVertBuff, gen, n),
       !.over = @ \/ n > getLocalVertBuff(o).localVertBuff.size]
fillInds(o, gen, n) ==
    [getLocalIndBuff(o) EXCEPT
       !.localIndBuff = filled(getLocalIndBuff(o).localIndBuff, gen, n),
       !.over = @ \/ n > getLocalIndBuff(o).localIndBuff.size]

\* OgreBaseRenderable::commitBuffers(commitVert, commitInd)
commitVerts(o) ==
    IF o.localVertBuff.null THEN o
    ELSE [o EXCEPT
            !.vertexData = copied(@, o.localVertBuff, o._numVertices),
            !.over = @ \/ o._numVertices > o.localVertBuff.size
                       \/ o._numVertices > o.vertexData.size]
commitInds(o) ==
    IF o.localIndBuff.null THEN o
    ELSE [o EXCEPT
            !.indexData = copied(@, o.localIndBuff, o._numIndices),
            !.over = @ \/ o._numIndices > o.localIndBuff.size
                       \/ o._numIndices > o.indexData.size]
commitBuffers(o, commitVert, commitInd) ==
    Only({IF commitInd THEN commitInds(v) ELSE v :
            v \in {IF commitVert THEN commitVerts(o) ELSE o}})

\* deleteLocalVertBuff() and deleteLocalIndBuff()
deleteLocalBuffs(o) ==
    [o EXCEPT !.localVertBuff = NoBuff, !.localIndBuff = NoBuff]

\* the number of default values for the type of the renderable
numvalsOf(o) ==
    IF o._opType = "OT_LINE_LIST" THEN 2
    ELSE IF o._opType \in {"OT_TRIANGLE_LIST", "OT_TRIANGLE_STRIP"} THEN 3
    ELSE 1

\* OgreBaseRenderable::fillDefaultData(deferFill)
fillDefaultData(o, deferFill) ==
    IF deferFill
    THEN [o EXCEPT !.deferFillOp = TRUE, !._numVertices = 0, !._numIndices = 0]
    ELSE Only({deleteLocalBuffs(commitBuffers(f, TRUE, numvalsOf(o) > 1)) :
                 f \in {fillInds(fillVerts(
                            createBuffers(o, numvalsOf(o), numvalsOf(o), FALSE),
                            0, numvalsOf(o)), 0, numvalsOf(o))}})

\* the body of the trylock block of _updateRenderQueue(), with no sorting
\* by depth (the scene does not render in high quality)
updateBody(o) ==
    IF ~o.deferFillOp THEN o
    ELSE IF o._numVertices > 0 \/ o._numIndices > 0
    THEN deleteLocalBuffs(commitBuffers(
             createBuffers(o, o._numVertices, o._numIndices, FALSE),
             TRUE, TRUE))
    ELSE fillDefaultData([o EXCEPT !.deferFillOp = FALSE], FALSE)

\* the body of the critical block of OgreFigure::fillData(vb, ib, deferFill,
\* false), call number gen, for a figure of type FT_POINTLIST (_opType is
\* OT_POINT_LIST) or FT_TRILIST (OT_TRIANGLE_LIST): vb holds numverts
\* vertices and ib numinds rows of indexWidth indices
fillWritten(o, gen, numverts, indexSum, deferFill) ==
    Only({IF deferFill THEN w ELSE deleteLocalBuffs(commitBuffers(w, TRUE, TRUE)) :
            w \in {IF indexSum > 0
                   THEN fillInds(fillVerts(o, gen, numverts), gen, indexSum)
                   ELSE fillVerts(o, gen, numverts)}})
\* indexSum: no index is taken from ib for a list of points
indexSumOf(o, numinds, indexWidth) ==
    IF o._opType = "OT_POINT_LIST" THEN 0 ELSE indexWidth * numinds
fillData(o, gen, numverts, numinds, indexWidth, deferFill) ==
    IF numverts = 0 THEN fillDefaultData(o, deferFill)
    ELSE Only({IF indexSum # 0 \/ o._opType = "OT_POINT_LIST"
               THEN fillWritten(createBuffers(o, numverts, indexSum, deferFill),
                                gen, numverts, indexSum, deferFill)
               ELSE createBuffers(o, numverts, indexSum, deferFill) :
                 indexSum \in {indexSumOf(o, numinds, indexWidth)}})

(***************************************************************************)
(* Shared segments (the Linux branch of the #ifdefs)                       *)
(***************************************************************************)
MAXSHMNAMLEN == 255     \* NAME_MAX

\* Matrix::_name; it holds a '/' so that the sanitising loop has work to do
MatName == <<"v", "/", "m">>

HexDigits == <<"0", "1", "2", "3", "4", "5", "6", "7",
               "8", "9", "a", "b", "c", "d", "e", "f">>

\* operator<< under std::hex
RECURSIVE Hex(_)
Hex(c) ==
    IF c < 16 THEN <<HexDigits[c + 1]>>
    ELSE Hex(c \div 16) \o <<HexDigits[(c % 16) + 1]>>

\* std::string::c_str() as the OS reads it: the characters before the first NUL
CStr(name) ==
    LET nul == {i \in 1..Len(name) : name[i] = "NUL"}
    IN IF nul = {} THEN name
       ELSE SubSeq(name, 1, (CHOOSE i \in nul : \A j \in nul : i <= j) - 1)

\* chooseSharedName(): every '/' of the name becomes '_'
noSlash(name) == [i \in 1..Len(name) |-> IF name[i] = "/" THEN "_" ELSE name[i]]

\* chooseSharedName(): a name of MAXSHMNAMLEN characters or more gets a NUL
\* at index MAXSHMNAMLEN-1
cutName(name) ==
    IF Len(name) >= MAXSHMNAMLEN THEN [name EXCEPT ![MAXSHMNAMLEN] = "NUL"]
    ELSE name

\* the name chooseSharedName(counter) stores in _sharedname
sharedNameFor(counter) ==
    cutName(noSlash(<<"__viz__", "ppid", "_", "pid">>
                    \o (IF counter > 0 THEN <<"_">> \o Hex(counter) ELSE <<>>)
                    \o <<"_">> \o MatName))

\* Matrix::chooseSharedName(counter)
chooseSharedName(s, counter) ==
    [s EXCEPT !.sharedname = sharedNameFor(counter)]

\* shm_open(name, O_CREAT | O_RDWR | (excl ? O_EXCL : 0)): the descriptor
\* ("ok", or the errno) and the namespace afterwards.  A segment this call
\* creates has size 0 until ftruncate.
shmOpen(sg, name, excl) ==
    IF name \in DOMAIN sg
    THEN [fd |-> IF excl THEN "EEXIST" ELSE "ok", segs |-> sg]
    ELSE [fd |-> "ok",
          segs |-> [x \in DOMAIN sg \cup {name} |->
                      IF x = name THEN [owner |-> "self", sized |-> FALSE]
                      ELSE sg[x]]]

\* shm_unlink(name); unlinking a name that does not exist (such as "") fails
\* and changes nothing
shmUnlink(sg, name) == [x \in DOMAIN sg \ {name} |-> sg[x]]

\* unlinkShared(name)
unlinkShared(sg, name) == shmUnlink(sg, CStr(name))

\* the object s with the namespace as the shm_open that returned r left it
opened(s, r) ==
    [st |-> [s EXCEPT !.segs = r.segs, !.opens = @ + 1], fd |-> r.fd]

\* shm_open(_sharedname.c_str(), ...): the object afterwards and the
\* descriptor, as [st, fd]
openNamed(s, excl) == opened(s, shmOpen(s.segs, CStr(s.sharedname), excl))

\* createShared(): the loop that tries the names with counter c, c+1, ...
\* after the open with the previous name failed with EEXIST; retryNext is
\* the loop's test of the open r made with counter c
RECURSIVE retryOpen(_, _)
retryNext(r, c) == IF r.fd = "EEXIST" THEN retryOpen(r.st, c + 1) ELSE r

\* the loop from counter c on
retryOpen(s, c) ==
    IF ~(c < RetryLimit) THEN [st |-> s, fd |-> "EEXIST"]
    ELSE retryNext(openNamed(chooseSharedName(s, c), TRUE), c)

\* createShared(): whether this object acts as the creator of the segment
isCreatorOf(s) == s.sharedname = <<>>

\* createShared(): the loop is entered when the first open r found the name
\* taken and this object is the creator
retryFirst(r, isCreator) ==
    IF isCreator /\ r.fd = "EEXIST" THEN retryOpen(r.st, 1) ELSE r

\* createShared(): the first shm_open, which fails with another errno than
\* EEXIST when os = "open", and the retry loop
openShared(s, isCreator, os) ==
    IF os = "open"
    THEN [st |-> [s EXCEPT !.opens = @ + 1, !.fault = "open"], fd |-> "EOTHER"]
    ELSE retryFirst(openNamed(s, isCreator), isCreator)

\* createShared(): mmap of the segment named by s, which fails when
\* os = "mmap"
mapShared(s, isCreator, os) ==
    IF os = "mmap"
    THEN Throw([s EXCEPT
                  !.segs = IF isCreator
                           THEN shmUnlink(s.segs, CStr(s.sharedname)) ELSE @,
                  !.fault = "mmap"], "MemException")
    ELSE [s EXCEPT !.maps = Inc(@), !.creator = isCreator]

\* createShared(): the creator's ftruncate of the segment named by s
truncated(s, isCreator) ==
    IF isCreator THEN [s EXCEPT !.segs[CStr(s.sharedname)].sized = TRUE] ELSE s

\* createShared(): what follows the opens, which left r = [st, fd]; ftruncate
\* fails when os = "trunc"
sizeAndMap(r, isCreator, os) ==
    IF r.fd # "ok" THEN Throw(r.st, "MemException")
    ELSE IF isCreator /\ os = "trunc"
    THEN Throw([r.st EXCEPT !.fault = "trunc"], "MemException")
    ELSE mapShared(truncated(r.st, isCreator), isCreator, os)

\* createShared() once isCreator is known
createAs(s, isCreator, os) ==
    sizeAndMap(openShared(IF isCreator THEN chooseSharedName(s, 0) ELSE s,
                          isCreator, os),
               isCreator, os)

\* Matrix::createShared(); os names the system call that fails, if any.
\* The result has exc = "none" when a mapping was returned.
createShared(s, os) == createAs(s, isCreatorOf(s), os)

\* Matrix::closeShared(ptr); ptr is what the pointer refers to
closeShared(s, ptr, os) ==
    IF ptr = "null" THEN s
    ELSE IF os = "munmap"
    THEN Throw([s EXCEPT !.fault = "munmap"], "MemException")
    ELSE [s EXCEPT !.sharedname = <<>>,
                   !.maps = IF ptr = "map" THEN Dec(@) ELSE @,
                   !.creator = FALSE,
                   !.ub = @ \/ ptr = "heap"]

\* a setShared() that never returns early
alreadySetNever(s, val) == FALSE

\* setShared(): the test for "nothing to do"
alreadySet(s, val) == s.data # "null" /\ val = s.isShared

\* setShared(true): the memcpy (or memset) into the mapping createShared()
\* returned, which left s1; s is the object before the call.  Touching the
\* pages of a segment that was never sized kills the process.
copyToShared(s, s1, cells, gs) ==
    IF s1.exc # "none" THEN s1
    ELSE IF ~s1.segs[CStr(s1.sharedname)].sized
    THEN [s1 EXCEPT !.crashed = TRUE]
    ELSE [s1 EXCEPT
            !.data = "map",
            !.buf = Norm(IF s.data = "null" THEN <<>>
                         ELSE ReadCells(s, cells, gs)),
            !.buflen = cells,
            !.ub = @ \/ s.data = "map"
                     \/ (s.data # "null" /\ cells > s.buflen),
            !.isShared = TRUE]

\* setShared(): _isShared=val, reached when nothing has thrown
setFlag(s, val) == IF s.exc # "none" THEN s ELSE [s EXCEPT !.isShared = val]

\* Matrix::setShared(val)
setShared(s, val, os, gs) ==
    IF alreadySet(s, val) THEN s
    ELSE IF val
    THEN IF memSize(s) = 0 THEN Throw(s, "MemException")
         ELSE copyToShared(s, createShared([s EXCEPT !.n_actual = s.n], os),
                           Elems(memSize(s)), gs)
    ELSE setFlag(closeShared(resize(s, 0, gs), s.data, os), FALSE)

\* clear(): unlinkShared(_sharedname), once closeShared() has left c
unlinkOwn(c) ==
    IF c.exc # "none" THEN c
    ELSE [c EXCEPT !.segs = unlinkShared(c.segs, c.sharedname)]

\* clear(): the assignments that end it
cleared(s) ==
    IF s.exc # "none" THEN s
    ELSE [s EXCEPT !.n_actual = 0, !.n = 0, !.isShared = FALSE,
                   !.data = "null", !.buf = <<>>, !.buflen = 0]

\* Matrix::clear()
clear(s, os) ==
    cleared(IF s.data # "null" /\ s.isShared
            THEN unlinkOwn(closeShared(s, s.data, os)) ELSE s)

\* the constructor's memcpy(data,array,memSize())
copyArray(s, array) ==
    IF s.exc # "none" THEN s
    ELSE WriteCells(s, 0, SubSeq(array, 1, Elems(memSize(s))))

\* Matrix(name, type, array, n, m, isShared): the member initialisers, then
\* setShared(isShared) and the memcpy of the n*m values of `array'
Matrix(array, n, m, isShared, sg) ==
    copyArray(setShared([data |-> "null", buf |-> <<>>, buflen |-> 0,
                         n_actual |-> 0, n |-> n, m |-> m,
                         isShared |-> FALSE, sharedname |-> <<>>,
                         segs |-> sg, maps |-> 0, creator |-> FALSE,
                         exc |-> "none", ub |-> FALSE, crashed |-> FALSE,
                         allocs |-> 0, opens |-> 0, fault |-> "none",
                         ret |-> <<>>],
                        isShared, "ok", <<>>),
              array)

(***************************************************************************)
(* The state machine: one action per public operation                      *)
(***************************************************************************)
MaxAdd == 2         \* rows added or reserved by one call: up to MaxAdd

\* the object and the OS as a call finds them
Self ==
    [data |-> data, buf |-> buf, buflen |-> buflen, n_actual |-> _n_actual,
     n |-> _n, m |-> _m, isShared |-> _isShared, sharedname |-> _sharedname,
     segs |-> segs, maps |-> maps, creator |-> creator,
     exc |-> "none", ub |-> ub, crashed |-> crashed,
     allocs |-> 0, opens |-> 0, fault |-> "none", ret |-> << >>]

\* what a read outside the block may yield in the current state.  A call reads
\* the _n*_m elements in use, and resize() copies _n_actual*_m elements when
\* it reallocates, which no call explored here makes it do once _n_actual
\* exceeds MaxRows + MaxAdd.
Junk ==
    Garbage(Slack(Self, Max(_n * _m,
                            IF _n_actual <= MaxRows + MaxAdd
                            THEN _n_actual * _m ELSE 0)))

\* no mutex, no thread beside the caller and no renderable
NoThreads == _mutex = << >> /\ thr = << >> /\ obj = << >>

\* the state r, reached by call c
Becomes(r, c, newrun) ==
    /\ Cardinality(DOMAIN r.segs) <= MaxSegs
    /\ data' = r.data /\ buf' = r.buf /\ buflen' = r.buflen
    /\ _n_actual' = r.n_actual /\ _n' = r.n /\ _m' = r.m
    /\ _isShared' = r.isShared /\ _sharedname' = r.sharedname
    /\ segs' = r.segs /\ maps' = r.maps
    /\ creator' = r.creator /\ exc' = r.exc /\ ub' = r.ub
    /\ crashed' = r.crashed /\ allocs' = r.allocs /\ opens' = r.opens
    /\ fault' = r.fault /\ ret' = r.ret /\ run' = newrun /\ call' = c
    /\ UNCHANGED <<_mutex, thr, obj>>

\* the state r, reached by call c, which continues a run of appends
BecomesInRun(r, c) ==
    Becomes(r, c, IF run = NoRun THEN NoRun ELSE run + r.allocs)

\* the state r as the state a constructor call leaves
Constructed(r, n, m, sh) ==
    /\ r.exc = "none"
    /\ data = r.data /\ buf = r.buf /\ buflen = r.buflen
    /\ _n_actual = r.n_actual /\ _n = r.n /\ _m = r.m
    /\ _isShared = r.isShared /\ _sharedname = r.sharedname
    /\ segs = r.segs /\ maps = r.maps
    /\ creator = r.creator /\ exc = r.exc /\ ub = r.ub
    /\ crashed = r.crashed /\ allocs = r.allocs /\ opens = r.opens
    /\ fault = r.fault /\ ret = r.ret
    /\ run = IF n = 0 THEN 0 ELSE NoRun
    /\ call = <<"Matrix", n, m, sh>>
    /\ NoThreads

\* a matrix constructed local or shared, from an array of n*m values
Init ==
    \E n \in 0..MaxInitRows, m \in 1..MaxM, sh \in BOOLEAN :
      \E array \in [1..n * m -> Val0] :
        Constructed(Matrix(array, n, m, sh, << >>), n, m, sh)

\* a matrix constructed local
InitLocal ==
    \E n \in 0..MaxInitRows, m \in 1..MaxM :
      \E array \in [1..n * m -> Val0] :
        Constructed(Matrix(array, n, m, FALSE, << >>), n, m, FALSE)

\* setN(k) for a k of K
SetN(K) ==
    /\ ~crashed
    /\ \E k \in K, gs \in Junk :
         Becomes(setN(Self, k, gs), <<"setN", k>>, NoRun)

SetM(K) ==
    /\ ~crashed
    /\ \E k \in K : Becomes(setM(Self, k), <<"setM", k>>, NoRun)

AddRows(K) ==
    /\ ~crashed
    /\ \E k \in K, gs \in Junk :
         Becomes(addRows(Self, k, gs), <<"addRows", k>>, NoRun)

ReserveRows(K) ==
    /\ ~crashed
    /\ \E k \in K, gs \in Junk :
         Becomes(reserveRows(Self, k, gs), <<"reserveRows", k>>, NoRun)

\* append(t, col); a run of single-value appends counts its reallocations
AppendAt(t, col) ==
    /\ ~crashed
    /\ \E gs \in Junk :
         BecomesInRun(append(Self, t, col, gs), <<"append", t, col>>)

AppendValue(V) == \E t \in V, col \in 0..(_m - 1) : AppendAt(t, col)

AppendMatrix(t) ==
    /\ ~crashed
    /\ \E gs \in Junk :
         Becomes(appendMatrix(Self, t, gs), <<"appendMatrix", t>>, NoRun)

\* the matrices of tn rows and tm columns over the values V
Matrices(TN, TM, V) ==
    UNION {{[n |-> tn, m |-> tm, cells |-> cells] :
              cells \in [1..tn * tm -> V]} : tn \in TN, tm \in TM}

AppendRows(TN, TM, V) == \E t \in Matrices(TN, TM, V) : AppendMatrix(t)

RemoveRow(K) ==
    /\ ~crashed
    /\ \E row \in K, gs \in Junk :
         Becomes(removeRow(Self, row, gs), <<"removeRow", row>>, NoRun)

\* the text files read: a missing file, or up to MaxLines lines, each blank
\* or holding _m values of V
Files(V) ==
    LET Line == [1.._m -> V] \cup {<< >>}
    IN {[exists |-> FALSE, lines |-> << >>]}
       \cup {[exists |-> TRUE, lines |-> ls] :
               ls \in UNION {[1..k -> Line] : k \in 0..MaxLines}}

ReadTextFile(V) ==
    /\ ~crashed
    /\ \E f \in Files(V), gs \in Junk :
         Becomes(readTextFile(Self, f, gs), <<"readTextFile", f>>, NoRun)

SetShared ==
    /\ ~crashed
    /\ \E val \in BOOLEAN, gs \in Junk :
         \E os \in IF val THEN {"ok", "open", "trunc", "mmap"}
                   ELSE {"ok", "munmap"} :
           Becomes(setShared(Self, val, os, gs), <<"setShared", val>>, NoRun)

Clear ==
    /\ ~crashed
    /\ \E os \in {"ok", "munmap"} :
         Becomes(clear(Self, os), <<"clear">>, NoRun)

\* another matrix (of this process or another) creates a segment under the
\* name with counter c, exclusively, and sizes it
OtherCreates ==
    /\ ~crashed
    /\ \E c \in 0..MaxForeign :
         LET name == CStr(sharedNameFor(c))
         IN /\ name \notin DOMAIN segs
            /\ Cardinality(DOMAIN segs) < MaxSegs
            /\ segs' = [x \in DOMAIN segs \cup {name} |->
                          IF x = name THEN [owner |-> "other", sized |-> TRUE]
                          ELSE segs[x]]
            /\ call' = <<"other", c>>
            /\ exc' = "none" /\ allocs' = 0 /\ opens' = 0 /\ fault' = "none"
            /\ ret' = << >>
            /\ UNCHANGED <<data, buf, buflen, _n_actual, _n, _m, _isShared,
                           _sharedname, maps, creator, ub, crashed, run,
                           _mutex, thr, obj>>

(***************************************************************************)
(* SpecLocal: a local matrix under every operation that changes its rows   *)
(* and columns.                                                            *)
(***************************************************************************)
NextLocal ==
    \/ SetN(0..MaxRows) \/ SetM(0..MaxM) \/ AddRows(0..MaxAdd)
    \/ ReserveRows(0..MaxAdd) \/ AppendValue(Val0)
    \/ AppendRows(1..MaxAdd, 1..MaxM, Val0) \/ RemoveRow(0..MaxRows)
    \/ ReadTextFile(Val0) \/ Clear

SpecLocal == InitLocal /\ [][NextLocal /\ _n' <= MaxRows]_vars

(***************************************************************************)
(* Spec: the matrix switching between local and shared storage.  setN and  *)
(* setM are called in either mode; the other row operations are called on  *)
(* the matrix while it is flagged shared (SpecLocal calls them on a local  *)
(* matrix).                                                                *)
(***************************************************************************)
OneRow == [n |-> 1, m |-> _m, cells |-> [i \in 1.._m |-> MaxVal]]

OneLine == [exists |-> TRUE, lines |-> <<[i \in 1.._m |-> MaxVal]>>]

OnShared ==
    /\ _isShared
    /\ \/ AddRows({1}) \/ ReserveRows({1}) \/ AppendValue({MaxVal})
       \/ AppendMatrix(OneRow) \/ RemoveRow({0})
       \/ \E gs \in Junk :
            Becomes(readTextFile(Self, OneLine, gs), <<"readTextFile", OneLine>>,
                    NoRun)

Next ==
    \/ SetShared \/ Clear \/ OtherCreates
    \/ SetN(0..MaxRows) \/ SetM(1..MaxM) \/ OnShared

Spec == Init /\ [][Next /\ _n' <= MaxRows]_vars

(***************************************************************************)
(* SpecGrow: a matrix constructed with 0 rows and 1 column that grows to   *)
(* NumAppends rows; row i is given the value i + 1.                        *)
(***************************************************************************)
InitGrow == Constructed(Matrix(<< >>, 0, 1, FALSE, << >>), 0, 1, FALSE)

GrowAppend == AppendAt(_n + 1, 0)

GrowAppendRows ==
    \E k \in 1..MaxAdd :
      AppendMatrix([n |-> k, m |-> 1, cells |-> [i \in 1..k |-> _n + i]])

GrowReserve == ReserveRows(1..MaxAdd)

NextGrow == GrowAppend \/ GrowAppendRows \/ GrowReserve

SpecGrow == InitGrow /\ [][NextGrow /\ _n' <= NumAppends]_vars

(***************************************************************************)
(* SpecAccess: a local matrix whose rows and columns are resized, read,    *)
(* written and reordered.                                                  *)
(***************************************************************************)
\* getAt(n, m) for every row and column up to the largest explored, so that
\* indices at and past both bounds are tried
GetAt ==
    /\ ~crashed
    /\ \E n \in 0..MaxRows, m \in 0..MaxM, gs \in Junk :
         Becomes(getAt(Self, n, m, gs), <<"getAt", n, m>>, NoRun)

SetAt ==
    /\ ~crashed
    /\ \E t \in Val0, n \in 0..MaxRows, m \in 0..MaxM :
         Becomes(setAt(Self, t, n, m), <<"setAt", t, n, m>>, NoRun)

\* reorderColumns(orderinds) for every array of _m indices in 0..MaxM: the
\* permutations, the arrays naming a column twice and those out of range
ReorderColumns ==
    /\ ~crashed
    /\ \E orderinds \in [1.._m -> 0..MaxM], gs \in Junk :
         Becomes(reorderColumns(Self, orderinds, gs),
                 <<"reorderColumns", orderinds>>, NoRun)

NextAccess ==
    \/ SetN(0..MaxRows) \/ SetM(1..MaxM) \/ GetAt \/ SetAt \/ ReorderColumns

SpecAccess == InitLocal /\ [][NextAccess /\ _n' <= MaxRows]_vars

(***************************************************************************)
(* Functions of values.  The matrix object takes no part: `call' holds the *)
(* function applied, its input and how often it was applied, `ret' the     *)
(* value it returned.                                                      *)
(***************************************************************************)
\* no matrix is involved
NoMatrix ==
    /\ data = "null" /\ buf = << >> /\ buflen = 0
    /\ _n_actual = 0 /\ _n = 0 /\ _m = 1
    /\ _isShared = FALSE /\ _sharedname = << >>
    /\ segs = << >> /\ maps = 0 /\ creator = FALSE
    /\ exc = "none" /\ ub = FALSE /\ crashed = FALSE
    /\ allocs = 0 /\ opens = 0 /\ fault = "none" /\ run = NoRun
Detached == NoMatrix /\ NoThreads

\* the value x is handed to function f
Given(f, x) == Detached /\ call = <<f, x, 0>> /\ ret = x

\* function f has been applied once more and returned v
Applied(f, v) ==
    /\ call' = <<f, call[2], call[3] + 1>> /\ ret' = v
    /\ UNCHANGED <<data, buf, buflen, _n_actual, _n, _m, _isShared,
                   _sharedname, segs, maps, creator, exc, ub, crashed,
                   allocs, opens, fault, run, _mutex, thr, obj>>

(***************************************************************************)
(* SpecSwap: values and matrices whose byte order is swapped, up to        *)
(* MaxSwaps times in a row.                                                *)
(***************************************************************************)
MaxSwaps == 2       \* swaps applied to one value
MaxCells == 3       \* elements of the block of a swapped matrix

ByteVals == {0, 1, 255}                 \* byte values explored
Floats == [1..4 -> ByteVals]            \* indexval and float values
Reals == [1..8 -> ByteVals]             \* real values
\* the reals and floats that vectors, colors and matrices are built from
SomeReals == {t \in Reals : \A k \in 2..7 : t[k] = 0}
SomeFloats == {t \in Floats : t[2] = 0 /\ t[3] = 0}

\* the matrices swapped: n*m elements in use in a block of MaxCells
SwapMatrices ==
    {[n |-> n, m |-> m, cells |-> cells] :
       n \in 0..1, m \in 1..2, cells \in [1..MaxCells -> SomeReals]}

InitSwap ==
    \/ \E t \in Reals : Given("SwapEndian<real>", t)
    \/ \E t \in Floats : Given("SwapEndian<indexval>", t)
    \/ \E t \in [1..3 -> SomeReals] : Given("SwapEndian<vec3>", t)
    \/ \E t \in [1..4 -> SomeFloats] : Given("SwapEndian<color>", t)
    \/ \E t \in SwapMatrices : Given("Matrix::swapEndian", t)

SwapReal ==
    /\ call[1] = "SwapEndian<real>" /\ call[3] < MaxSwaps
    /\ Applied(call[1], SwapEndianReal(ret))

SwapIndexval ==
    /\ call[1] = "SwapEndian<indexval>" /\ call[3] < MaxSwaps
    /\ Applied(call[1], SwapEndianIndexval(ret))

SwapVec3 ==
    /\ call[1] = "SwapEndian<vec3>" /\ call[3] < MaxSwaps
    /\ Applied(call[1], SwapEndianVec3(ret))

SwapColor ==
    /\ call[1] = "SwapEndian<color>" /\ call[3] < MaxSwaps
    /\ Applied(call[1], SwapEndianColor(ret))

SwapMatrix ==
    /\ call[1] = "Matrix::swapEndian" /\ call[3] < MaxSwaps
    /\ Applied(call[1], swapEndian(ret))

NextSwap == SwapReal \/ SwapIndexval \/ SwapVec3 \/ SwapColor \/ SwapMatrix

SpecSwap == InitSwap /\ [][NextSwap]_vars

(***************************************************************************)
(* SpecBasis: the basis functions applied to the points of a grid that     *)
(* reaches beyond the unit cube.                                           *)
(***************************************************************************)
XiDen == 4          \* xi coordinates are multiples of 1/XiDen
XiLow == 4          \* the smallest is -XiLow/XiDen
XiHigh == 8         \* the largest is XiHigh/XiDen

XiVals == {Real(k, XiDen) : k \in (0 - XiLow)..XiHigh}

InitBasis ==
    \E xi \in [1..3 -> XiVals] :
        Given("basis_Hex1NL", xi) \/ Given("basis_Tet1NL", xi)

BasisHex ==
    /\ call[1] = "basis_Hex1NL" /\ call[3] = 0
    /\ Applied(call[1], basis_Hex1NL(ret[1], ret[2], ret[3]))

BasisTet ==
    /\ call[1] = "basis_Tet1NL" /\ call[3] = 0
    /\ Applied(call[1], basis_Tet1NL(ret[1], ret[2], ret[3]))

NextBasis == BasisHex \/ BasisTet

SpecBasis == InitBasis /\ [][NextBasis]_vars

(***************************************************************************)
(* SpecSearch: pointSearchLinHex applied to the points of a grid, in the   *)
(* unit hexahedron, in affine images of it and in a flat hexahedron.       *)
(***************************************************************************)
PtDen == 2          \* point coordinates are multiples of 1/PtDen
PtLow == 2          \* the smallest is -PtLow/PtDen
PtHigh == 4         \* the largest is PtHigh/PtDen
XiGridDen == 4      \* xi coordinates compared with: multiples of 1/XiGridDen

\* the vector (x, y, z)/d
V(x, y, z, d) == <<Real(x, d), Real(y, d), Real(z, d)>>

\* the hexahedron with corner n1 = o and edges e1 = n2-n1, e2 = n3-n1,
\* e3 = n5-n1, its corners in the order basis_Hex1NL gives them
affineHex(o, e1, e2, e3) ==
    [k \in 1..8 |->
        VPlus(VPlus(VPlus(o, VTimes(e1, Real((k - 1) % 2, 1))),
                    VTimes(e2, Real(((k - 1) \div 2) % 2, 1))),
              VTimes(e3, Real((k - 1) \div 4, 1)))]

\* the unit hexahedron: n1..n8 = (0,0,0), (1,0,0), (0,1,0), (1,1,0),
\* (0,0,1), (1,0,1), (0,1,1), (1,1,1)
UnitHex == affineHex(V(0, 0, 0, 1), V(1, 0, 0, 1), V(0, 1, 0, 1), V(0, 0, 1, 1))

\* hexahedra of positive or negative volume: the unit hexahedron, one of
\* edge 2 around it, a sheared one and a mirrored one
SolidHexes ==
    {UnitHex,
     affineHex(V(0 - 1, 0 - 1, 0 - 1, 2), V(2, 0, 0, 1), V(0, 2, 0, 1),
               V(0, 0, 2, 1)),
     affineHex(V(0, 0, 0, 1), V(1, 0, 0, 1), V(0, 1, 0, 1), V(1, 0, 1, 1)),
     affineHex(V(1, 0, 0, 1), V(0 - 1, 0, 0, 1), V(0, 1, 0, 1), V(0, 0, 1, 1))}

\* a hexahedron of no volume: the unit square, n5..n8 lying on n1..n4
FlatHex == affineHex(V(0, 0, 0, 1), V(1, 0, 0, 1), V(0, 1, 0, 1), V(0, 0, 0, 1))

PtVals == {Real(k, PtDen) : k \in (0 - PtLow)..PtHigh}

InitSearch ==
    \E pt \in [1..3 -> PtVals], ns \in SolidHexes \cup {FlatHex} :
        Given("pointSearchLinHex", [pt |-> pt, ns |-> ns])

PointSearchLinHex ==
    /\ call[1] = "pointSearchLinHex" /\ call[3] = 0
    /\ Applied(call[1], pointSearchLinHex(call[2].pt, call[2].ns))

NextSearch == PointSearchLinHex

SpecSearch == InitSearch /\ [][NextSearch]_vars

(***************************************************************************)
(* SpecIntersect: calculateHexValueIntersects applied to arbitrary corner  *)
(* values and to the distances of a cube's corners to a plane, and         *)
(* getPlaneIntersects applied to the same planes.                          *)
(***************************************************************************)
MaxCorner == 1      \* corner values explored: -MaxCorner..MaxCorner
MaxNorm == 2        \* components of a plane normal: -MaxNorm..MaxNorm
PlaneDen == 2       \* plane points are multiples of 1/PlaneDen in the cube

\* the figure: bound box and texture box are the unit cube
UnitFigure ==
    [boundcube |-> setCube(vec3(Zero), vec3(One)),
     texcube |-> setCube(vec3(Zero), vec3(One))]

CornerVals == {Real(k, 1) : k \in (0 - MaxCorner)..MaxCorner}
Normals == [1..3 -> {Real(k, 1) : k \in (0 - MaxNorm)..MaxNorm}]
PlanePts == [1..3 -> {Real(k, PlaneDen) : k \in 0..PlaneDen}]

\* the planes explored and the distances of the cube's corners to them
Planes == {[planept |-> pt, planenorm |-> nm] : pt \in PlanePts, nm \in Normals}

InitIntersect ==
    \/ \E vals \in [1..8 -> CornerVals] :
         Given("calculateHexValueIntersects",
               [val |-> Zero, vals |-> vals, plane |-> << >>])
    \/ \E pl \in Planes :
         Given("calculateHexValueIntersects",
               [val |-> Zero,
                vals |-> heightsOf(UnitFigure, pl.planept, pl.planenorm),
                plane |-> <<pl>>])
    \/ \E pl \in Planes : Given("getPlaneIntersects", pl)

CalculateHexValueIntersects ==
    /\ call[1] = "calculateHexValueIntersects" /\ call[3] = 0
    /\ Applied(call[1], calculateHexValueIntersects(call[2].val, call[2].vals))

GetPlaneIntersects ==
    /\ call[1] = "getPlaneIntersects" /\ call[3] = 0
    /\ Applied(call[1], getPlaneIntersects(UnitFigure, call[2].planept,
                                           call[2].planenorm))

NextIntersect == CalculateHexValueIntersects \/ GetPlaneIntersects

SpecIntersect == InitIntersect /\ [][NextIntersect]_vars

(***************************************************************************)
(* SpecRay: rays constructed from a position and a direction, and          *)
(* intersected with triangles, boxes and meshes of triangles.              *)
(***************************************************************************)
DirMax == 2         \* components of a direction: -DirMax..DirMax
PosDen == 5         \* x and y of a ray's position are multiples of 1/PosDen
PosLow == 1         \* the smallest is -PosLow/PosDen
PosHigh == 6        \* the largest is PosHigh/PosDen
PosZ == 1           \* z of a ray's position: -PosZ..PosZ
MeshPos == 3        \* a position before a mesh or box: -MeshPos..MeshPos
MaxResults == 2     \* numResults: 0..MaxResults

\* the directions given to a ray
Directions == {V(x, y, z, 1) : x, y, z \in (0 - DirMax)..DirMax}
\* those setDirection() takes the length of, whose length is a real of the
\* model
RayDirs == {v \in Directions : ~isZero(v) /\ IsSquare(lenSq(v))}

TriPts ==
    {V(x, y, z * PosDen, PosDen) :
       x \in (0 - PosLow)..PosHigh, y \in (0 - PosLow)..PosHigh,
       z \in (0 - PosZ)..PosZ}
MeshPts == {V(x, y, z, 1) : x, y, z \in (0 - MeshPos)..MeshPos}

\* triangles: the unit triangle, the same with v1 and v2 exchanged, a
\* tilted one and one with its vertices on a line
Triangles ==
    {<<V(0, 0, 0, 1), V(1, 0, 0, 1), V(0, 1, 0, 1)>>,
     <<V(0, 0, 0, 1), V(0, 1, 0, 1), V(1, 0, 0, 1)>>,
     <<V(0, 0, 0, 1), V(1, 0, 1, 1), V(0, 1, 1, 1)>>,
     <<V(0, 0, 0, 1), V(1, 0, 0, 1), V(2, 0, 0, 1)>>}

\* boxes <<minv, maxv>>
Boxes ==
    {<<V(0 - 1, 0 - 1, 0 - 1, 1), V(1, 1, 1, 1)>>,
     <<V(1, 0 - 1, 0, 1), V(2, 1, 3, 1)>>}

\* the mesh of the triangles ts, no two sharing a node, without and with
\* the centres and squared radii of spheres around them
meshOf(ts) ==
    [nodes |-> [k \in 1..(3 * Len(ts)) |->
                  ts[((k - 1) \div 3) + 1][((k - 1) % 3) + 1]],
     inds |-> [n \in 1..Len(ts) |-> <<3 * n - 3, 3 * n - 2, 3 * n - 1>>],
     spheres |-> FALSE, centers |-> << >>, radii2 |-> << >>]
withSpheres(mesh) ==
    [mesh EXCEPT !.spheres = TRUE,
                 !.centers = [n \in 1..Len(mesh.inds) |-> centerOf(mesh, n - 1)],
                 !.radii2 = [n \in 1..Len(mesh.inds) |->
                               radOf(mesh, n - 1, centerOf(mesh, n - 1))]]

\* the triangle (-2,-2,z), (4,-2,z), (-2,4,z), its centre at (0,0,z)
Level(z) == <<V(0 - 2, 0 - 2, z, 1), V(4, 0 - 2, z, 1), V(0 - 2, 4, z, 1)>>
\* a triangle across the levels, its centre at (1,0,-1)
Skew == <<V(2, 0, 0 - 3, 1), V(3, 2, 0 - 2, 1), V(0 - 2, 0 - 2, 2, 1)>>
\* meshes: one level, three levels, and the two sides of the triangle
\* across them
LocalMeshes ==
    {meshOf(<<Level(0)>>),
     meshOf(<<Level(0), Level(1), Level(2)>>),
     meshOf(<<Skew, <<Skew[1], Skew[3], Skew[2]>>>>)}
Meshes == LocalMeshes \cup {withSpheres(mesh) : mesh \in LocalMeshes}

\* the distance of every centre of the mesh to pos is a real of the model
Measurable(mesh, pos) ==
    \A n \in 0..(Len(mesh.inds) - 1) :
        IsSquare(distToSq(centerOf(mesh, n), pos))

InitRay ==
    \/ \E pos \in TriPts, v \in {w \in Directions : isZero(w)} \cup RayDirs :
         Given("Ray", [pos |-> pos, dir |-> v])
    \/ \E pos \in TriPts, v \in RayDirs, tri \in Triangles :
         Given("intersectsTri", [pos |-> pos, dir |-> v, tri |-> tri])
    \/ \E pos \in MeshPts, v \in RayDirs, box \in Boxes :
         Given("intersectsAABB", [pos |-> pos, dir |-> v, box |-> box])
    \/ \E pos \in MeshPts, v \in RayDirs, mesh \in Meshes,
          numResults \in 0..MaxResults, excludeInd \in (0 - 1)..1 :
         /\ Measurable(mesh, pos)
         /\ Given("intersectsTriMesh",
                  [pos |-> pos, dir |-> v, mesh |-> mesh,
                   numResults |-> numResults, excludeInd |-> excludeInd])

\* Ray(pos, dir): a ray, or std::invalid_argument
RayConstruct ==
    /\ call[1] = "Ray" /\ call[3] = 0
    /\ call' = <<call[1], call[2], 1>>
    /\ IF isZero(call[2].dir)
       THEN exc' = "invalid_argument" /\ ret' = << >>
       ELSE exc' = "none" /\ ret' = setDirection(call[2].pos, call[2].dir)
    /\ UNCHANGED <<data, buf, buflen, _n_actual, _n, _m, _isShared,
                   _sharedname, segs, maps, creator, ub, crashed,
                   allocs, opens, fault, run, _mutex, thr, obj>>

IntersectsTri ==
    /\ call[1] = "intersectsTri" /\ call[3] = 0
    /\ Applied(call[1],
               intersectsTri(setDirection(call[2].pos, call[2].dir),
                             call[2].tri[1], call[2].tri[2], call[2].tri[3]))

IntersectsAABB ==
    /\ call[1] = "intersectsAABB" /\ call[3] = 0
    /\ Applied(call[1],
               intersectsAABB(setDirection(call[2].pos, call[2].dir),
                              call[2].box[1], call[2].box[2]))

IntersectsTriMesh ==
    /\ call[1] = "intersectsTriMesh" /\ call[3] = 0
    /\ Applied(call[1],
               intersectsTriMesh(setDirection(call[2].pos, call[2].dir),
                                 call[2].mesh, call[2].numResults,
                                 call[2].excludeInd))

NextRay == RayConstruct \/ IntersectsTri \/ IntersectsAABB \/ IntersectsTriMesh

SpecRay == InitRay /\ [][NextRay]_vars

(***************************************************************************)
(* SpecSlice: calculateTriPlaneSlice applied to triangles and the planes   *)
(* of SpecIntersect.                                                       *)
(***************************************************************************)
\* triangles: two with their vertices apart, one with a = b
SlicedTriangles ==
    {<<V(0, 0, 0, 1), V(1, 0, 0, 1), V(0, 1, 0, 1)>>,
     <<V(1, 1, 0, 1), V(0, 1, 1, 1), V(1, 0, 1, 1)>>,
     <<V(0, 0, 0, 1), V(0, 0, 0, 1), V(1, 1, 1, 1)>>}

InitSlice ==
    \E pl \in Planes, tri \in SlicedTriangles :
        Given("calculateTriPlaneSlice",
              [planept |-> pl.planept, planenorm |-> pl.planenorm, tri |-> tri])

CalculateTriPlaneSlice ==
    /\ call[1] = "calculateTriPlaneSlice" /\ call[3] = 0
    /\ Applied(call[1],
               calculateTriPlaneSlice(call[2].planept, call[2].planenorm,
                                      call[2].tri[1], call[2].tri[2],
                                      call[2].tri[3]))

NextSlice == CalculateTriPlaneSlice

SpecSlice == InitSlice /\ [][NextSlice]_vars

(***************************************************************************)
(* SpecMeta: pairs are stored in a MetaType, which is then serialized; the *)
(* string is deserialized into a MetaType just constructed.  `ret' holds   *)
(* the map of the object last written.                                     *)
(***************************************************************************)
MaxStr == 2         \* characters of a key or value given to meta()
MaxPairs == 2       \* calls of meta()

\* the strings given to meta(): of the characters a, b and |
MetaStrings == UNION {[1..n -> {"a", "b", "|"}] : n \in 0..MaxStr}

InitMeta == Detached /\ call = <<"MetaType", << >>, 0>> /\ ret = NoMeta

\* meta(key, val)
Meta ==
    /\ call[1] \in {"MetaType", "meta"} /\ call[3] < MaxPairs
    /\ \E key \in MetaStrings, val \in MetaStrings :
         /\ call' = <<"meta", <<key, val>>, call[3] + 1>>
         /\ ret' = meta(ret, key, val)
    /\ UNCHANGED <<data, buf, buflen, _n_actual, _n, _m, _isShared,
                   _sharedname, segs, maps, creator, exc, ub, crashed,
                   allocs, opens, fault, run, _mutex, thr, obj>>

\* fresh.deserializeMeta(serializeMeta()).  std::string val=p with p NULL is
\* undefined: libstdc++ throws std::logic_error, other libraries read the
\* address 0
Unpickle ==
    /\ call[1] \in {"MetaType", "meta"}
    /\ call' = <<"deserializeMeta", serializeMeta(ret), call[3]>>
    /\ \E got \in {deserializeMeta(NoMeta, serializeMeta(ret))} :
         /\ ret' = got._meta
         /\ IF got.null
            THEN \/ exc' = "logic_error" /\ ub' = TRUE /\ crashed' = FALSE
                 \/ exc' = "none" /\ ub' = TRUE /\ crashed' = TRUE
            ELSE exc' = "none" /\ ub' = FALSE /\ crashed' = FALSE
    /\ UNCHANGED <<data, buf, buflen, _n_actual, _n, _m, _isShared,
                   _sharedname, segs, maps, creator,
                   allocs, opens, fault, run, _mutex, thr, obj>>

NextMeta == Meta \/ Unpickle

SpecMeta == InitMeta /\ [][NextMeta]_vars

(***************************************************************************)
(* Threads and their Lockers: the steps of thread t in a critical(m) or    *)
(* trylock(m, timeout) block, timeout > 0.                                 *)
(***************************************************************************)
\* thread t takes a step that leaves it as th, the mutex as m and the
\* renderable as o
Steps(t, th, m, o) ==
    /\ thr' = [thr EXCEPT ![t] = th]
    /\ _mutex' = m
    /\ obj' = o
    /\ UNCHANGED <<data, buf, buflen, _n_actual, _n, _m, _isShared,
                   _sharedname, segs, maps, creator, exc, ub, crashed,
                   allocs, opens, fault, run, call, ret>>

\* critical(m): Locker(m) calls lock(0.0)
Critical(t) ==
    /\ thr[t].pc = "out"
    /\ Steps(t, [thr[t] EXCEPT !.pc = "lock"], _mutex, obj)

\* trylock(m, timeout): Locker(m, timeout) calls lock(timeout)
Trylock(t) ==
    /\ thr[t].pc = "out"
    /\ Steps(t, [thr[t] EXCEPT !.pc = "try"], _mutex, obj)

\* lock(0.0): lock_mutex returns
LockMutex(t) ==
    /\ thr[t].pc = "lock" /\ trylock_mutex(_mutex, t)
    /\ Steps(t, lockTaken(thr[t]), lockedBy(_mutex, t), obj)

\* lock(timeout): trylock_mutex succeeds, or fails until the time is over
TryMutex(t) ==
    /\ thr[t].pc = "try"
    /\ IF trylock_mutex(_mutex, t)
       THEN Steps(t, lockTried(thr[t], TRUE), lockedBy(_mutex, t), obj)
       ELSE Steps(t, lockTried(thr[t], FALSE), _mutex, obj)

\* loopOnce() before the body and after it
LoopOnce(t) ==
    /\ thr[t].pc \in {"enter", "after"}
    /\ Steps(t, loopOnce(thr[t]), _mutex, obj)

\* ~Locker(): parent->release()
Release(t) ==
    /\ thr[t].pc \in {"done", "skipped"}
    /\ \E m \in unlock_mutex(_mutex, t) : Steps(t, Outside, m, obj)

(***************************************************************************)
(* SpecMutex: NumThreads threads that enter critical and trylock blocks    *)
(* on one mutex of either type.                                            *)
(***************************************************************************)
NumThreads == 3     \* threads

Threads == 1..NumThreads

InitMutex ==
    /\ NoMatrix /\ ret = << >> /\ obj = << >>
    /\ \E type \in {"pthread_mutex_t", "CRITICAL_SECTION"} :
         _mutex = Mutex(type) /\ call = <<"Mutex", type>>
    /\ thr = [t \in Threads |-> Outside]

\* the body of a block, which leaves the mutex alone
Body(t) ==
    /\ thr[t].pc = "body"
    /\ Steps(t, [thr[t] EXCEPT !.pc = "after"], _mutex, obj)

NextMutex ==
    \E t \in Threads :
        \/ Critical(t) \/ Trylock(t) \/ LockMutex(t) \/ TryMutex(t)
        \/ LoopOnce(t) \/ Body(t) \/ Release(t)

SpecMutex == InitMutex /\ [][NextMutex]_vars

(***************************************************************************)
(* SpecFill: thread 1 calls OgreFigure::fillData with deferFill = true,    *)
(* thread 2 is the render thread in _updateRenderQueue; the mutex of the   *)
(* renderable is a pthread_mutex_t.  `call' holds the arguments of the     *)
(* last fillData whose block was executed and its number.                  *)
(***************************************************************************)
MaxFills == 3       \* calls of fillData
MaxVerts == 2       \* vertices of a vertex buffer: 0..MaxVerts
MaxInds == 2        \* rows of an index buffer: 0..MaxInds

InitFill ==
    /\ NoMatrix /\ ret = << >>
    /\ _mutex = Mutex("pthread_mutex_t")
    /\ thr = [t \in 1..2 |-> Outside]
    /\ \E opType \in {"OT_POINT_LIST", "OT_TRIANGLE_LIST"} :
         obj = Renderable(opType)
    /\ call = <<"fillData", [numverts |-> 0, numinds |-> 0], 0>>

\* fillData(vb, ib, true) reaches its critical block
FillCall == call[3] < MaxFills /\ Critical(1)

\* the block of fillData, for triangles (indexWidth is 3)
FillBody ==
    /\ thr[1].pc = "body"
    /\ \E numverts \in 0..MaxVerts, numinds \in 0..MaxInds :
         /\ obj' = fillData(obj, call[3] + 1, numverts, numinds, 3, TRUE)
         /\ call' = <<"fillData", [numverts |-> numverts, numinds |-> numinds],
                      call[3] + 1>>
    /\ thr' = [thr EXCEPT ![1].pc = "after"]
    /\ UNCHANGED <<data, buf, buflen, _n_actual, _n, _m, _isShared,
                   _sharedname, segs, maps, creator, exc, ub, crashed,
                   allocs, opens, fault, run, ret, _mutex>>

\* _updateRenderQueue() reaches its trylock block; it returns before when
\* vertexData is NULL and no fill is deferred
RenderCall ==
    /\ ~(obj.vertexData.null /\ ~obj.deferFillOp)
    /\ Trylock(2)

\* the block of _updateRenderQueue()
RenderBody ==
    /\ thr[2].pc = "body"
    /\ Steps(2, [thr[2] EXCEPT !.pc = "after"], _mutex, updateBody(obj))

NextFill ==
    \/ FillCall \/ LockMutex(1) \/ LoopOnce(1) \/ FillBody \/ Release(1)
    \/ RenderCall \/ TryMutex(2) \/ LoopOnce(2) \/ RenderBody \/ Release(2)

SpecFill == InitFill /\ [][NextFill]_vars

(***************************************************************************)
(* Properties                                                              *)
(***************************************************************************)
\* the object's own fields and the block it refers to
MatrixFields ==
    <<data, buf, buflen, _n_actual, _n, _m, _isShared, _sharedname>>

\* the calls that change the number of rows or columns
RowCalls ==
    {"append", "appendMatrix", "addRows", "setN", "reserveRows", "removeRow",
     "setM", "readTextFile"}

\* the calls that ask resize() for more rows
GrowCalls == {"append", "appendMatrix", "addRows", "setN", "reserveRows"}

\* the rows a call asks resize() to reserve beyond _n
Reserved(c) == IF c[1] = "reserveRows" THEN c[2] ELSE 0

\* the last call returned normally
Returned == exc = "none" /\ ~crashed

\* C1: in every reachable state the row capacity _n_actual is at least the
\* row count _n.
C1_CapacityCoversRows == _n_actual >= _n

\* C2: a successful append(value, col) on a local matrix adds one row, leaves
\* every element of the old rows as it was and stores value in column col of
\* the new last row; a successful append(other) adds other's rows after the
\* unchanged old rows.
C2_AppendKeepsData ==
    [][(~_isShared /\ exc' = "none" /\ ~crashed'
          /\ call'[1] \in {"append", "appendMatrix"})
       => /\ \A i \in 0..(_n * _m - 1) : Elem(buf', i) = Elem(buf, i)
          /\ call'[1] = "append" =>
               /\ _n' = _n + 1
               /\ Elem(buf', _n * _m + call'[3]) = call'[2]
          /\ call'[1] = "appendMatrix" =>
               /\ _n' = _n + call'[2].n
               /\ \A j \in 1..Len(call'[2].cells) :
                    Elem(buf', _n * _m + j - 1) = call'[2].cells[j]]_vars

\* C3: a row or column call on a matrix flagged shared throws MemException,
\* allocates nothing and leaves the object, its block and the namespace as
\* they were.
C3_SharedRejects ==
    [][(_isShared /\ call'[1] \in RowCalls)
       => /\ exc' = "MemException"
          /\ allocs' = 0 /\ opens' = 0
          /\ UNCHANGED <<MatrixFields, segs, maps>>]_vars

C3_Witness ==
    /\ _isShared /\ data = "map" /\ buf # << >>
    /\ call[1] = "append" /\ exc = "MemException"

\* C4: in every reachable state the data is either a local block, with
\* isShared() false, an empty shared name and no mapping held, or one
\* mapping of a named segment, with isShared() true and a non-empty name.
C4_OneBacking ==
    crashed \/
      /\ data \in {"null", "heap"} =>
           ~_isShared /\ _sharedname = << >> /\ maps = 0
      /\ data = "map" =>
           _isShared /\ _sharedname # << >> /\ maps = 1

\* C5: when a shared matrix that created its segment releases it with
\* clear() or setShared(false), no segment of the name it was using exists
\* afterwards.
C5_ReleaseUnlinks ==
    [][(data = "map" /\ creator /\ exc' = "none" /\ ~crashed'
          /\ (call'[1] = "clear"
                \/ (call'[1] = "setShared" /\ ~call'[2])))
       => CStr(_sharedname) \notin DOMAIN segs']_vars

\* C6: a setShared call that switches the storage mode (to shared from a
\* non-empty local matrix, or to local from a shared one) keeps _n, _m and
\* every one of the _n*_m elements.
C6_SwitchKeepsContents ==
    [][(call'[1] = "setShared" /\ exc' = "none" /\ ~crashed'
          /\ _isShared' # _isShared)
       => /\ _n' = _n /\ _m' = _m
          /\ \A i \in 0..(_n * _m - 1) :
               i < buflen => Elem(buf', i) = Elem(buf, i)]_vars

C6_Witness ==
    /\ call[1] = "setShared" /\ ~call[2] /\ Returned
    /\ allocs = 1 /\ data = "heap" /\ ~_isShared
    /\ _n > 0 /\ Len(buf) = _n * _m

\* C7: setShared(v) on a matrix whose mode is already v allocates nothing,
\* opens no segment and leaves the object, its block and the namespace as
\* they were.
C7_SetSharedIdempotent ==
    [][(call'[1] = "setShared" /\ call'[2] = _isShared)
       => /\ exc' = "none" /\ ~crashed'
          /\ allocs' = 0 /\ opens' = 0
          /\ UNCHANGED <<MatrixFields, segs, maps>>]_vars

C7_Witness ==
    /\ call[1] = "setShared" /\ call[2] /\ _isShared /\ data = "map"
    /\ opens = 0 /\ Returned

\* C10: a mapping obtained by setShared(true) is of a segment this object
\* created exclusively, which no other creator owns; a failing system call
\* ends the call with MemException; the retries are bounded.
C10_ExclusiveCreation ==
    /\ (data = "map" /\ ~crashed) =>
         creator /\ segs[CStr(_sharedname)].owner = "self"
    /\ fault # "none" => exc = "MemException"
    /\ opens <= RetryLimit

\* ceil(1.5 * n)
CeilHalfMore(n) == (3 * n + 1) \div 2

\* the rows a call asks for: those it adds to _n and those it reserves
Requested(c, oldn, newn) == (newn - oldn) + Reserved(c)

C9_FewReallocations ==
    [][/\ (~_isShared /\ call'[1] \in GrowCalls /\ allocs' > 0)
            => _n' + Reserved(call') > _n_actual
       /\ run' # NoRun => run' <= 10]_vars

C9_Witness ==
    /\ call[1] = "append" /\ _n = NumAppends /\ run # NoRun /\ run >= 3

\* the row and the column a getAt or setAt call c names
AccessRow(c) == IF c[1] = "getAt" THEN c[2] ELSE c[3]
AccessCol(c) == IF c[1] = "getAt" THEN c[3] ELSE c[4]

\* C11: getAt(row, col) and setAt(value, row, col) throw IndexException
\* exactly when row >= _n or col >= _m, the row being checked first and
\* against the row count _n, not the capacity; the exception carries the
\* index name, the offending value and the bound, and a failing call leaves
\* the matrix unchanged.  Otherwise the call reads or writes the element at
\* row*_m+col and no other (stated for an index inside the allocated block).
C11_IndexChecked ==
    [][call'[1] \in {"getAt", "setAt"} =>
         /\ AccessRow(call') >= _n =>
              exc' = "IndexException" /\ ret' = <<"n", AccessRow(call'), _n>>
         /\ (AccessRow(call') < _n /\ AccessCol(call') >= _m) =>
              exc' = "IndexException" /\ ret' = <<"m", AccessCol(call'), _m>>
         /\ (AccessRow(call') < _n /\ AccessCol(call') < _m) => exc' = "none"
         /\ exc' = "IndexException" => UNCHANGED <<MatrixFields, segs, maps>>
         /\ (exc' = "none" /\ ~crashed'
             /\ AccessRow(call') * _m + AccessCol(call') < buflen) =>
              IF call'[1] = "getAt"
              THEN /\ ret' = Elem(buf, AccessRow(call') * _m + AccessCol(call'))
                   /\ UNCHANGED MatrixFields
              ELSE /\ UNCHANGED <<data, buflen, _n_actual, _n, _m, _isShared,
                                  _sharedname>>
                   /\ \A i \in 0..Max(Len(buf), Len(buf')) :
                        Elem(buf', i) =
                          IF i = AccessRow(call') * _m + AccessCol(call')
                          THEN call'[2] ELSE Elem(buf, i)]_vars

\* a setAt whose row lies between the row count and the capacity was rejected
C11_Witness ==
    /\ call[1] = "setAt" /\ call[3] >= _n /\ call[3] < _n_actual
    /\ exc = "IndexException" /\ ret = <<"n", call[3], _n>> /\ buf # << >>

\* orderinds names each of the columns 0..m-1 exactly once
IsPermutation(orderinds, m) ==
    /\ \A j \in 1..m : orderinds[j] < m
    /\ \A j \in 1..m : \A k \in 1..m : orderinds[j] = orderinds[k] => j = k

\* C12: reorderColumns(order) accepts only the permutations of [0, _m): an
\* array with an index out of range or naming a column twice is rejected
\* with IndexException and the matrix is unchanged; for an accepted array the
\* new element (r, j) is the old element (r, order[j]).
C12_OnlyPermutations ==
    [][call'[1] = "reorderColumns" =>
         IF IsPermutation(call'[2], _m)
         THEN /\ exc' = "none"
              /\ (~crashed' /\ _n * _m <= buflen) =>
                   /\ UNCHANGED <<data, buflen, _n_actual, _n, _m, _isShared,
                                  _sharedname>>
                   /\ \A r \in 0..(_n - 1) : \A j \in 0..(_m - 1) :
                        Elem(buf', r * _m + j) =
                          Elem(buf, r * _m + call'[2][j + 1])
         ELSE exc' = "IndexException" /\ UNCHANGED MatrixFields]_vars

\* C13: a file I/O failure is reported as MemException and the call does not
\* return normally after it: readTextFile() of a file that is missing or
\* cannot be opened throws MemException.
C13_MissingFileThrows ==
    [][(call'[1] = "readTextFile" /\ ~call'[2].exists) =>
         exc' = "MemException"]_vars

\* the functions that swap the byte order
SwapCalls ==
    {"SwapEndian<real>", "SwapEndian<indexval>", "SwapEndian<vec3>",
     "SwapEndian<color>", "Matrix::swapEndian"}

\* C14: the byte swap is an involution: swapping a real (8 bytes), an
\* indexval (4 bytes), a vec3 or a color (componentwise) twice returns the
\* value it started from, and Matrix::swapEndian() applied twice restores
\* every one of the n*m elements (and leaves the rest of the block alone).
C14_SwapTwice ==
    (call[1] \in SwapCalls /\ call[3] = 2) => ret = call[2]

\* a matrix with elements in use was swapped twice, and one swap changes it
C14_Witness ==
    /\ call[1] = "Matrix::swapEndian" /\ call[3] = 2
    /\ ret.n * ret.m = 2 /\ swapEndian(ret) # ret
    /\ swapEndian(ret).cells[3] = ret.cells[3]

Searched == call[1] = "pointSearchLinHex" /\ call[3] = 1

\* C16: in the unit hexahedron, pointSearchLinHex at each of the corners
\* n1..n8 returns that corner's canonical xi (which is the corner itself),
\* never (-1,-1,-1).
C16_CornersFound ==
    (Searched /\ call[2].ns = UnitHex) =>
        \A k \in 1..8 :
            call[2].pt = UnitHex[k] => ret = UnitHex[k] /\ ret # NotFound

\* the corner n8 = (1,1,1) of the unit hexahedron was searched and found
C16_Witness ==
    /\ Searched /\ call[2].ns = UnitHex /\ call[2].pt = vec3(One)
    /\ ret = vec3(One)

\* some component of v is negative
HasNegative(v) == \E k \in 1..3 : Less(v[k], Zero)

\* the tets (0..4) of the hex ns that contain pt
Containing(pt, ns) ==
    {t \in 0..4 :
        \E tet \in {hexTet(ns, t)} : inSimplex(pointSearchLinTet(pt, tet))}

\* the smallest element of a nonempty set of numbers
Least(S) == CHOOSE t \in S : \A u \in S : t <= u

\* the xi that tet t gives for a point it contains
XiFrom(pt, ns, t) ==
    Only({weighted(divtets[t + 1], basis_Tet1NL(xi[1], xi[2], xi[3])) :
            xi \in {pointSearchLinTet(pt, tet) : tet \in {hexTet(ns, t)}}})

\* the points of the unit cube with coordinates on the xi grid
XiGrid == [1..3 -> {Real(k, XiGridDen) : k \in 0..XiGridDen}]

\* what C17 says of the vector r returned for pt in the hex ns, found being
\* the set of tets that contain pt
SearchResult(pt, ns, r, found) ==
    /\ (r = NotFound) <=>
         (~inAABB(pt, minCorner(ns), maxCorner(ns)) \/ found = {})
    /\ HasNegative(r) <=> (r = NotFound)
    /\ r # NotFound =>
         /\ r = XiFrom(pt, ns, Least(found))
         /\ isInUnitCube(r)
         /\ interpolated(ns, r) = pt
    /\ (r = NotFound /\ ns \in SolidHexes) =>
         \A xi \in XiGrid : interpolated(ns, xi) # pt

\* C17: pointSearchLinHex returns exactly (-1,-1,-1) when the point is
\* outside the bounding box or none of the 5 tets contains it; otherwise the
\* first tet, in the order 0..4, that contains the point determines the
\* result, which has no negative component, so that a negative component
\* means not found and nothing else.  The result found is the xi at which
\* the hexahedron interpolates to the point, and a point reported not found
\* in a hexahedron with volume is no point of it.
C17_NotFoundSentinel ==
    Searched =>
        \A found \in {Containing(call[2].pt, call[2].ns)} :
            SearchResult(call[2].pt, call[2].ns, ret, found)

\* a point inside the bounding box of the sheared hexahedron that no tet
\* contains was reported not found
C17_Witness ==
    /\ Searched /\ ret = NotFound /\ call[2].ns \in SolidHexes
    /\ inAABB(call[2].pt, minCorner(call[2].ns), maxCorner(call[2].ns))
    /\ Containing(call[2].pt, call[2].ns) = {}

\* calculateHexValueIntersects has returned
Intersected == call[1] = "calculateHexValueIntersects" /\ call[3] = 1

\* the 12 edges of the hexahedron, as pairs of corner numbers (from 0)
HexEdges == {indices[i] : i \in 1..12}

\* the corner values at the ends of edge e straddle val
Straddles(vals, val, e) ==
    \/ LessEq(val, vals[e[1] + 1]) /\ Less(vals[e[2] + 1], val)
    \/ LessEq(val, vals[e[2] + 1]) /\ Less(vals[e[1] + 1], val)

\* the edges that the intersects rs name
EdgesOf(rs) == {<<rs[k][1], rs[k][2]>> : k \in 1..Len(rs)}

\* C18: calculateHexValueIntersects reports at most 6 crossings; each is one
\* of the 12 edges, its corner values straddle val (one >= val, the other
\* < val), and no edge is reported twice.  When the values are the signed
\* distances of the corners to a plane, every straddling edge is reported.
C18_AtMostSixCrossings ==
    Intersected =>
        /\ Len(ret) <= 6
        /\ \A k \in 1..Len(ret) :
             /\ <<ret[k][1], ret[k][2]>> \in HexEdges
             /\ Straddles(call[2].vals, call[2].val, ret[k])
        /\ \A k \in 1..Len(ret) : \A l \in 1..Len(ret) :
             (ret[k][1] = ret[l][1] /\ ret[k][2] = ret[l][2]) => k = l
        /\ call[2].plane # << >> =>
             EdgesOf(ret) =
               {e \in HexEdges : Straddles(call[2].vals, call[2].val, e)}

\* a plane crossed the cube in 6 edges and all 6 were reported
C18_Witness ==
    /\ Intersected /\ call[2].plane # << >> /\ Len(ret) = 6
    /\ Cardinality({e \in HexEdges :
                      Straddles(call[2].vals, call[2].val, e)}) = 6

\* the edges of the unit cube that are parallel to z
ZEdges == {<<0, 4>>, <<1, 5>>, <<2, 6>>, <<3, 7>>}

\* C19: each crossing (a, b, f) reported has 0 <= f <= 1, and interpolating
\* from corner a to corner b by f gives the point where the value equals
\* val (for a plane: a point of the plane).  The unit cube sliced by the
\* plane z = 0.5 with normal (0,0,1) gives exactly 4 crossings, on the 4
\* edges parallel to z, each with f = 0.5.
C19_CrossingsInterpolate ==
    Intersected =>
        /\ \A k \in 1..Len(ret) :
             /\ LessEq(Zero, ret[k][3]) /\ LessEq(ret[k][3], One)
             /\ lerp(ret[k][3], call[2].vals[ret[k][1] + 1],
                     call[2].vals[ret[k][2] + 1]) = call[2].val
             /\ call[2].plane # << >> =>
                  planeDist(lerpVec(ret[k][3],
                                    UnitFigure.boundcube[ret[k][1] + 1],
                                    UnitFigure.boundcube[ret[k][2] + 1]),
                            call[2].plane[1].planept,
                            call[2].plane[1].planenorm) = Zero
        /\ (/\ call[2].plane # << >>
            /\ call[2].plane[1].planenorm = <<Zero, Zero, One>>
            /\ call[2].plane[1].planept[3] = Real(1, 2)) =>
             /\ Len(ret) = 4 /\ EdgesOf(ret) = ZEdges
             /\ \A k \in 1..4 : ret[k][3] = Real(1, 2)

\* the unit cube was sliced by the plane z = 0.5 and 4 crossings reported
C19_Witness ==
    /\ Intersected /\ call[2].plane # << >>
    /\ call[2].plane[1].planenorm = <<Zero, Zero, One>>
    /\ call[2].plane[1].planept = vec3(Real(1, 2))
    /\ Len(ret) = 4 /\ ret[1] = <<0, 4, Real(1, 2)>>

\* C20: after getPlaneIntersects the intersection points are in a consistent
\* circular order: the point discovered first stays first, and for every
\* later pair i < j the order planeOrder(normal, p_j, p_i) about the first
\* point is not positive.
C20_CircularOrder ==
    (call[1] = "getPlaneIntersects" /\ call[3] = 1 /\ Len(ret) > 0) =>
        /\ ret[1] =
             planevert(UnitFigure,
                       calculateHexValueIntersects(
                           Zero, heightsOf(UnitFigure, call[2].planept,
                                           call[2].planenorm))[1])
        /\ \A i \in 2..Len(ret) : \A j \in (i + 1)..Len(ret) :
             planeOrder(ret[1][1], call[2].planenorm, ret[j][1], ret[i][1])
               <= 0

\* the last call was function f, and it has returned
Called(f) == call[1] = f /\ call[3] = 1

\* the ray the last call was made on
CalledRay == setDirection(call[2].pos, call[2].dir)

\* the point with the coordinates u and v in the triangle tri
InTriangle(tri, u, v) ==
    VPlus(VPlus(VTimes(tri[1], Minus(Minus(One, u), v)), VTimes(tri[2], u)),
          VTimes(tri[3], v))

\* the ray from (0.2, 0.2, 1) in direction (0, 0, -1) and the unit triangle
ExampleTri ==
    [pos |-> V(1, 1, 5, 5), dir |-> V(0, 0, 0 - 1, 1),
     tri |-> <<V(0, 0, 0, 1), V(1, 0, 0, 1), V(0, 1, 0, 1)>>]

\* C22: intersectsTri returns (-1,-1,-1), or (t,u,v) with t >= 0, u >= 0,
\* v >= 0 and u+v <= 1 such that the point of the ray at t is the point of
\* the triangle with the coordinates u and v; for the ray from (0.2,0.2,1)
\* in direction (0,0,-1) and the triangle (0,0,0), (1,0,0), (0,1,0) it
\* returns t = 1, u = 0.2, v = 0.2.
C22_TriResult ==
    Called("intersectsTri") =>
      /\ \/ ret = NoTri
         \/ /\ LessEq(Zero, ret[1]) /\ LessEq(Zero, ret[2])
            /\ LessEq(Zero, ret[3]) /\ LessEq(Plus(ret[2], ret[3]), One)
            /\ getPosition(CalledRay, ret[1])
                 = InTriangle(call[2].tri, ret[2], ret[3])
      /\ call[2] = ExampleTri => ret = <<One, Real(1, 5), Real(1, 5)>>

C22_Witness ==
    /\ Called("intersectsTri") /\ call[2] = ExampleTri
    /\ ret = <<One, Real(1, 5), Real(1, 5)>>

\* C25: constructing a Ray throws std::invalid_argument exactly for a
\* direction of length zero, that is one whose three components are zero,
\* and accepts every direction with a component that is not zero.
C25_OnlyZeroLengthRejected ==
    Called("Ray") =>
      (exc = "invalid_argument" <=> \A k \in 1..3 : call[2].dir[k] = Zero)

\* the parameters at which the line of the ray crosses the two faces of the
\* box that are normal to axis k, the smaller first; the axis is not
\* parallel to those faces
Crossing(ray, box, k) ==
    LET a == Over(Minus(box[1][k], ray.pos[k]), ray.dir[k])
        b == Over(Minus(box[2][k], ray.pos[k]), ray.dir[k])
    IN  IF Less(a, b) THEN <<a, b>> ELSE <<b, a>>

\* the axes along which the ray moves
Moving(ray) == {k \in 1..3 : ray.dir[k] # Zero}

\* the parameters at which the line enters and leaves the box
Enters(ray, box) ==
    CHOOSE t \in {Crossing(ray, box, k)[1] : k \in Moving(ray)} :
        \A k \in Moving(ray) : LessEq(Crossing(ray, box, k)[1], t)
Leaves(ray, box) ==
    CHOOSE t \in {Crossing(ray, box, k)[2] : k \in Moving(ray)} :
        \A k \in Moving(ray) : LessEq(t, Crossing(ray, box, k)[2])

\* the line of the ray has a point in the box
PassesThrough(ray, box) ==
    /\ \A k \in (1..3) \ Moving(ray) :
         LessEq(box[1][k], ray.pos[k]) /\ LessEq(ray.pos[k], box[2][k])
    /\ LessEq(Enters(ray, box), Leaves(ray, box))

\* the point v is in the box, not on its faces
Inside(v, box) == \A k \in 1..3 : Less(box[1][k], v[k]) /\ Less(v[k], box[2][k])

\* the point v is on a face of the box
OnFace(v, box) ==
    /\ \A k \in 1..3 : LessEq(box[1][k], v[k]) /\ LessEq(v[k], box[2][k])
    /\ ~Inside(v, box)

\* C23: intersectsAABB returns (n, m), n <= m, the parameters at which the
\* line of the ray enters and leaves the box, whenever the line passes
\* through the box, whatever axes the direction is parallel to; it returns
\* (-1,-1) when the line does not pass through the box and when the origin
\* of the ray is inside the box.
C23_EnterLeave ==
    Called("intersectsAABB") =>
      \A ray \in {CalledRay} :
        IF Inside(ray.pos, call[2].box) \/ ~PassesThrough(ray, call[2].box)
        THEN ret = NoAABB
        ELSE OnFace(ray.pos, call[2].box)
               \/ ret = <<Enters(ray, call[2].box), Leaves(ray, call[2].box)>>


\* what intersectsTri reports for every triangle of the mesh, with the
\* index of the triangle, in the order of the indices
AllTris(ray, mesh) ==
    [n \in 1..Len(mesh.inds) |->
        <<n - 1, intersectsTri(ray, triOf(mesh, n - 1)[1],
                               triOf(mesh, n - 1)[2], triOf(mesh, n - 1)[3])>>]

\* the first numResults members of rs, all of them for numResults = 0
FirstOf(rs, numResults) ==
    IF numResults = 0 \/ Len(rs) <= numResults THEN rs
    ELSE SubSeq(rs, 1, numResults)

\* C21: the result of intersectsTriMesh lists, in the order of their
\* indices, the triangles for which intersectsTri reports a hit (t >= 0),
\* leaving out only the triangle at excludeInd and, when numResults > 0,
\* the hits after the first numResults: the test of the bounding sphere
\* passes over no triangle that intersectsTri accepts.
C21_MeshListsHits ==
    Called("intersectsTriMesh") =>
      ret = FirstOf(SelectSeq(AllTris(CalledRay, call[2].mesh),
                              LAMBDA r : r[1] # call[2].excludeInd
                                           /\ LessEq(Zero, r[2][1])),
                    call[2].numResults)


\* the distances of the vertices of the sliced triangle to the plane
SliceDists ==
    [k \in 1..3 |-> planeDist(call[2].tri[k], call[2].planept, call[2].planenorm)]

\* the triangle has vertices apart and on both sides of the plane
Sliced ==
    /\ call[2].tri[1] # call[2].tri[2] /\ call[2].tri[2] # call[2].tri[3]
    /\ call[2].tri[1] # call[2].tri[3]
    /\ \E k \in 1..3 : Less(Zero, SliceDists[k])
    /\ \E k \in 1..3 : Less(SliceDists[k], Zero)

\* the value r is that of the edge from vertex i to vertex j: positive
\* exactly when vertex i is above the plane and, when the edge crosses the
\* plane, with the point at the proportion |r| from i to j on the plane
EdgeValue(r, i, j) ==
    /\ Less(Zero, r) <=> Less(Zero, SliceDists[i])
    /\ Less(Times(SliceDists[i], SliceDists[j]), Zero)
         => planeDist(lerpVec(fabs(r), call[2].tri[i], call[2].tri[j]),
                      call[2].planept, call[2].planenorm) = Zero

\* C24: for a triangle (a, b, c) with vertices on both sides of the plane
\* the three values of calculateTriPlaneSlice are those of the edges a-b,
\* a-c and b-c in this order: each is positive exactly when the first node
\* of its edge is above the plane, and its magnitude is the proportion of
\* the way from the first node to the second at which the edge meets the
\* plane.
C24_EdgeOrder ==
    (Called("calculateTriPlaneSlice") /\ Sliced) =>
      /\ EdgeValue(ret[1], 1, 2)
      /\ EdgeValue(ret[2], 1, 3)
      /\ EdgeValue(ret[3], 2, 3)


\* C26: deserializeMeta(serializeMeta()) on an object just constructed
\* returns normally and gives it the map of the serialized object, whatever
\* pairs were stored with meta(key, val), a key or a value that is empty
\* included.
C26_RoundTrip ==
    [][call'[1] = "deserializeMeta"
         => exc' = "none" /\ ~crashed' /\ ret' = ret]_vars


\* thread t is between the lock it acquired and its release
Holding(t) ==
    \/ thr[t].pc \in {"body", "after", "done"}
    \/ thr[t].pc = "enter" /\ thr[t].runblock

\* C27: the body of a critical or trylock block runs only while its thread
\* holds the mutex, at most one thread is inside a block on the mutex, a
\* timed lock that did not acquire the mutex skips the body, and the
\* release after a failed timed lock leaves the mutex to the thread that
\* holds it.
C27_BlocksExclusive ==
    /\ [](\A t \in Threads : Holding(t) => _mutex.owner = t)
    /\ [](Cardinality({t \in Threads : thr[t].pc = "body"}) <= 1)
    /\ [][\A t \in Threads :
            /\ (thr[t].pc = "enter" /\ ~thr[t].runblock)
                 => thr'[t].pc # "body"
            /\ (thr[t].pc = "skipped" /\ thr'[t].pc = "out")
                 => _mutex' = _mutex]_vars


\* the number of indices the last fillData was given
LastIndexSum == indexSumOf(obj, call[2].numinds, 3)

\* the last fillData was given vertices and wrote them
LastWrote ==
    /\ call[3] > 0 /\ call[2].numverts > 0
    /\ LastIndexSum > 0 \/ obj._opType = "OT_POINT_LIST"

\* the buffer b has `size' items, the data of the last fillData
HoldsLast(b, size) ==
    b = [null |-> FALSE, size |-> size, gen |-> call[3], len |-> size]

\* C28: under fillData calls with deferFill = true, the hardware buffers
\* are created and written only by the render thread in the block of
\* _updateRenderQueue while it holds the mutex; the local buffers fillData
\* writes are at least as large as the current numbers of vertices and
\* indices, so that no write or copy passes their end; and after a render
\* cycle that acquired the mutex no fill is deferred and the hardware
\* buffers hold the data of the most recent fillData call.
C28_DeferredFillSafe ==
    /\ [][(obj'.vertexData # obj.vertexData
             \/ obj'.indexData # obj.indexData)
            => (thr[2].pc = "body" /\ _mutex.owner = 2)]_vars
    /\ [](/\ ~obj.over
          /\ ~obj.localVertBuff.null
               => obj.localVertBuff.size >= obj._numVertices
          /\ ~obj.localIndBuff.null
               => obj.localIndBuff.size >= obj._numIndices)
    /\ [](thr[2].pc = "after" =>
            /\ ~obj.deferFillOp
            /\ LastWrote =>
                 /\ HoldsLast(obj.vertexData, call[2].numverts)
                 /\ LastIndexSum > 0 => HoldsLast(obj.indexData, LastIndexSum))


\* C29: a setShared call that ends with MemException leaves the object as it
\* was: after a failed setShared(true) the matrix is local with the same
\* block, contents, _n, _m and _n_actual and an empty _sharedname (so that
\* the next createShared() is the creator again); after a failed
\* setShared(false) it is flagged shared, mapped and has the same fields.
C29_FailedSetSharedKeeps ==
    [][(call'[1] = "setShared" /\ exc' = "MemException" /\ ~crashed')
       => /\ UNCHANGED <<MatrixFields, maps>>
          /\ call'[2] => ~_isShared' /\ data' # "map" /\ _sharedname' = << >>
          /\ ~call'[2] => _isShared' /\ data' = "map"]_vars


\* C30: when setN, addRows or append(value, col) on a local matrix returns
\* with more rows than before, every element of the added rows reads zero,
\* except the element append stored its value in.
C30_NewRowsZero ==
    [][(~_isShared /\ exc' = "none" /\ ~crashed'
          /\ call'[1] \in {"setN", "addRows", "append"} /\ _n' > _n)
       => \A i \in (_n * _m)..(_n' * _m' - 1) :
            Elem(buf', i) = IF call'[1] = "append" /\ i = _n * _m + call'[3]
                            THEN call'[2] ELSE 0]_vars

====
